---- MODULE Spec2Model ----
(***************************************************************************)
(* A model of skills/onboard/scripts/treemap.py: the tree-sitter codebase  *)
(* mapper.  One behaviour is one or more runs of main() over one unchanged *)
(* directory tree: _load_languages, CodebaseMapper.scan (os.walk and       *)
(* _parse_file), detect_circular_imports, detect_unused_imports,           *)
(* detect_duplicate_logic and format_output.                               *)
(*                                                                         *)
(* Python str values are TLA+ strings; a character of s is SubSeq(s,i,i).  *)
(* What tree-sitter and the file system deliver (the tree, the nodes of    *)
(* each file, which grammar loads) is the input, drawn in Init.  The order *)
(* in which a Python set of str is iterated depends on the hash seed of    *)
(* the process, so it is chosen anew in every run.                         *)
(***************************************************************************)
EXTENDS Integers, Sequences, FiniteSets, TLC

(***************************************************************************)
(* Generic sequence helpers                                                *)
(***************************************************************************)
Range(s) == {s[i] : i \in 1..Len(s)}

Min2(a, b) == IF a <= b THEN a ELSE b

\* All the orders in which the finite set S can be iterated.
Perms(S) ==
  {p \in [1..Cardinality(S) -> S] : \A i, j \in 1..Cardinality(S) : p[i] = p[j] => i = j}

RECURSIVE Concat(_)
\* list.extend over a sequence of sequences
Concat(ss) == IF ss = <<>> THEN <<>> ELSE Head(ss) \o Concat(Tail(ss))

RECURSIVE SumSeq(_)
\* sum() over a sequence of numbers
SumSeq(s) == IF s = <<>> THEN 0 ELSE Head(s) + SumSeq(Tail(s))

\* The pairs <<x, y>> of elements of s, the raw material of an order on them
PairsOf(s) == Range(s) \X Range(s)

(***************************************************************************)
(* Python str operations                                                   *)
(***************************************************************************)
Ch(s, i) == SubSeq(s, i, i)

\* Code points in increasing order, for the characters the inputs use.
CharOrder == "\t\n #()*,-./0123456789>_abcdefghijklmnopqrstuvwxyz~"

CharRank(c) == CHOOSE i \in 1..Len(CharOrder) : Ch(CharOrder, i) = c

Whitespace == {" ", "\n", "\t"}

\* str.__lt__: lexicographic by code point
RECURSIVE StrLess(_, _)
StrLess(s, t) ==
  IF t = "" THEN FALSE
  ELSE IF s = "" THEN TRUE
  ELSE IF Ch(s, 1) # Ch(t, 1) THEN CharRank(Ch(s, 1)) < CharRank(Ch(t, 1))
  ELSE StrLess(Tail(s), Tail(t))

StartsWith(s, p) == Len(p) <= Len(s) /\ SubSeq(s, 1, Len(p)) = p

EndsWith(s, p) == Len(p) <= Len(s) /\ SubSeq(s, Len(s) - Len(p) + 1, Len(s)) = p

\* `sub in s`
Contains(s, sub) == \E i \in 1..(Len(s) - Len(sub) + 1) : SubSeq(s, i, i + Len(sub) - 1) = sub

\* str.count(sub) for a one-character sub
CountChar(s, c) == Cardinality({i \in 1..Len(s) : Ch(s, i) = c})

RECURSIVE Replace(_, _, _)
\* str.replace(old, new): non-overlapping occurrences, left to right (old # "")
Replace(s, old, new) ==
  IF Len(s) < Len(old) THEN s
  ELSE IF StartsWith(s, old) THEN new \o Replace(SubSeq(s, Len(old) + 1, Len(s)), old, new)
  ELSE Ch(s, 1) \o Replace(Tail(s), old, new)

RECURSIVE LStrip(_)
LStrip(s) == IF s # "" /\ Ch(s, 1) \in Whitespace THEN LStrip(Tail(s)) ELSE s

RECURSIVE RStrip(_)
RStrip(s) ==
  IF s # "" /\ Ch(s, Len(s)) \in Whitespace THEN RStrip(SubSeq(s, 1, Len(s) - 1)) ELSE s

\* str.strip()
Strip(s) == LStrip(RStrip(s))

RECURSIVE RStripChars(_, _)
\* str.rstrip(chars)
RStripChars(s, chars) ==
  IF s # "" /\ Ch(s, Len(s)) \in chars
  THEN RStripChars(SubSeq(s, 1, Len(s) - 1), chars) ELSE s

RECURSIVE SplitOn(_, _)
\* str.split(sep) for a non-empty sep: empty fields are kept
SplitOn(s, sep) ==
  LET n == Len(sep)
      hits == {k \in 1..(Len(s) - n + 1) : SubSeq(s, k, k + n - 1) = sep}
  IN IF hits = {} THEN <<s>>
     ELSE LET i == CHOOSE k \in hits : \A m \in hits : k <= m
          IN <<SubSeq(s, 1, i - 1)>> \o SplitOn(SubSeq(s, i + n, Len(s)), sep)

RECURSIVE StripChars(_, _)
\* str.strip(chars)
StripChars(s, chars) ==
  IF s # "" /\ Ch(s, 1) \in chars THEN StripChars(Tail(s), chars)
  ELSE IF s # "" /\ Ch(s, Len(s)) \in chars THEN StripChars(SubSeq(s, 1, Len(s) - 1), chars)
  ELSE s

RECURSIVE SplitWs(_)
\* str.split(): runs of whitespace separate, no empty fields
SplitWs(s) ==
  LET t == LStrip(s) IN
  IF t = "" THEN <<>>
  ELSE IF \A i \in 1..Len(t) : Ch(t, i) \notin Whitespace THEN <<t>>
  ELSE LET i == CHOOSE k \in 1..Len(t) :
                  Ch(t, k) \in Whitespace /\ \A m \in 1..(k - 1) : Ch(t, m) \notin Whitespace
       IN <<SubSeq(t, 1, i - 1)>> \o SplitWs(SubSeq(t, i + 1, Len(t)))

\* str.splitlines(): a final line break opens no further line
SplitLines(s) ==
  IF s = "" THEN <<>>
  ELSE IF Ch(s, Len(s)) = "\n" THEN SplitOn(SubSeq(s, 1, Len(s) - 1), "\n")
  ELSE SplitOn(s, "\n")

RECURSIVE Join(_, _)
\* sep.join(parts)
Join(sep, parts) ==
  IF parts = <<>> THEN ""
  ELSE IF Len(parts) = 1 THEN parts[1]
  ELSE parts[1] \o sep \o Join(sep, Tail(parts))

\* sorted(): stable, ascending; less is the set of the pairs <<x, y>> with x
\* before y in the order
SortedBy(s, less) ==
  LET RECURSIVE ins(_, _)
      ins(e, t) == IF t = <<>> THEN <<e>>
                   ELSE IF <<e, Head(t)>> \in less THEN <<e>> \o t
                   ELSE <<Head(t)>> \o ins(e, Tail(t))
      RECURSIVE srt(_)
      srt(n) == IF n = 0 THEN <<>> ELSE ins(s[n], srt(n - 1))
  IN srt(Len(s))

SortedStrs(s) == SortedBy(s, {p \in PairsOf(s) : StrLess(p[1], p[2])})

(***************************************************************************)
(* Language loading and configuration tables                               *)
(***************************************************************************)
\* `loaders` of _load_languages, in dict order
LoaderOrder ==
  <<"python", "javascript", "typescript", "tsx", "rust", "go", "java", "ruby",
    "c", "cpp", "kotlin">>

\* What loading one grammar can do: succeed, or raise.  "ImportError" is the
\* package missing; Language(...) raises ValueError for a grammar built
\* against an incompatible ABI version.
LoadOutcomes == {"ok", "ImportError", "AttributeError", "TypeError", "RuntimeError", "ValueError"}

\* The exceptions the two except clauses of _load_languages catch
LoadCaught == {"ImportError", "AttributeError", "TypeError", "RuntimeError"}

DEFAULT_IGNORE_DIRS ==
  {".git", "node_modules", "__pycache__", "venv", ".venv", "env",
   "dist", "build", ".tox", ".mypy_cache", ".pytest_cache", ".ruff_cache",
   ".next", ".nuxt", "target", "out", ".eggs", "*.egg-info",
   ".claude", ".idea", ".vscode", "coverage", "htmlcov",
   ".cache", ".parcel-cache", ".turbo", ".vercel", ".output",
   "vendor", "bower_components", ".gradle", ".mvn",
   "_build", "site-packages", ".bundle"}

EXT_TO_LANG ==
  [e \in {".py", ".ts", ".tsx", ".js", ".jsx", ".rs", ".go", ".java", ".rb",
          ".c", ".h", ".cpp", ".cc", ".cxx", ".hpp", ".kt", ".kts"} |->
     CASE e = ".py" -> "python"
       [] e = ".ts" -> "typescript"
       [] e = ".tsx" -> "tsx"
       [] e \in {".js", ".jsx"} -> "javascript"
       [] e = ".rs" -> "rust"
       [] e = ".go" -> "go"
       [] e = ".java" -> "java"
       [] e = ".rb" -> "ruby"
       [] e \in {".c", ".h"} -> "c"
       [] e \in {".cpp", ".cc", ".cxx", ".hpp"} -> "cpp"
       [] e \in {".kt", ".kts"} -> "kotlin"]

\* MapperConfig() with its default field values
DefaultConfig ==
  [long_func_lines |-> 50, god_class_methods |-> 15, deep_nesting_levels |-> 4,
   many_params |-> 5, large_file_lines |-> 500,
   skip_smells |-> {}, extra_ignore_dirs |-> {}]

\* LANG_NODE_TYPES[lang].get(role, [])
NodeTypes(lang, role) ==
  CASE role = "classes" ->
         (CASE lang = "python" -> {"class_definition"}
            [] lang \in {"typescript", "tsx", "javascript"} -> {"class_declaration"}
            [] lang = "rust" -> {"struct_item", "enum_item", "impl_item"}
            [] lang = "go" -> {"type_declaration"}
            [] lang = "java" -> {"class_declaration", "interface_declaration", "enum_declaration"}
            [] lang = "ruby" -> {"class", "module"}
            [] lang = "c" -> {"struct_specifier"}
            [] lang = "cpp" -> {"class_specifier", "struct_specifier"}
            [] lang = "kotlin" -> {"class_declaration", "object_declaration"}
            [] OTHER -> {})
    [] role = "functions" ->
         (CASE lang = "python" -> {"function_definition"}
            [] lang \in {"typescript", "tsx", "javascript"} ->
                 {"function_declaration", "method_definition", "arrow_function"}
            [] lang = "rust" -> {"function_item"}
            [] lang = "go" -> {"function_declaration", "method_declaration"}
            [] lang = "java" -> {"method_declaration", "constructor_declaration"}
            [] lang = "ruby" -> {"method", "singleton_method"}
            [] lang \in {"c", "cpp"} -> {"function_definition"}
            [] lang = "kotlin" -> {"function_declaration"}
            [] OTHER -> {})
    [] role = "imports" ->
         (CASE lang = "python" -> {"import_statement", "import_from_statement"}
            [] lang \in {"typescript", "tsx", "javascript"} -> {"import_statement"}
            [] lang = "rust" -> {"use_declaration"}
            [] lang \in {"go", "java"} -> {"import_declaration"}
            [] lang = "ruby" -> {"call"}
            [] lang \in {"c", "cpp"} -> {"preproc_include"}
            [] lang = "kotlin" -> {"import_header"}
            [] OTHER -> {})
    [] role = "interfaces" ->
         (CASE lang \in {"typescript", "tsx"} -> {"interface_declaration"}
            [] OTHER -> {})
    [] role = "type_aliases" ->
         (CASE lang \in {"typescript", "tsx"} -> {"type_alias_declaration"}
            [] OTHER -> {})
    [] OTHER -> {}

(***************************************************************************)
(* Paths                                                                   *)
(***************************************************************************)
\* A relative path is the sequence of its segments (Path.parts); str(path)
\* joins them with "/".
PathStr(parts) == Join("/", parts)

\* PurePath.suffix of a file name
Suffix(name) ==
  LET dots == {i \in 1..Len(name) : Ch(name, i) = "."} IN
  IF dots = {} THEN ""
  ELSE LET i == CHOOSE d \in dots : \A e \in dots : e <= d
       IN IF 1 < i /\ i < Len(name) THEN SubSeq(name, i, Len(name)) ELSE ""

\* The helper should_ignore with only the first segment of the path looked at.
should_ignore_first_only(parts, ignore_dirs) ==
  /\ parts # <<>>
  /\ \/ parts[1] \in ignore_dirs
     \/ \E pattern \in ignore_dirs :
          Contains(pattern, "*") /\ EndsWith(parts[1], Replace(pattern, "*", ""))

\* The helper should_ignore, matching by containment instead of equality.
should_ignore_substring(parts, ignore_dirs) ==
  \E i \in 1..Len(parts) :
    \/ \E pattern \in ignore_dirs : Contains(parts[i], pattern)
    \/ \E pattern \in ignore_dirs :
         Contains(pattern, "*") /\ EndsWith(parts[i], Replace(pattern, "*", ""))

should_ignore(parts, ignore_dirs) ==
  \E i \in 1..Len(parts) :
    \/ parts[i] \in ignore_dirs
    \/ \E pattern \in ignore_dirs :
         Contains(pattern, "*") /\ EndsWith(parts[i], Replace(pattern, "*", ""))

(***************************************************************************)
(* Syntax nodes, findings and the visitors                                 *)
(*                                                                         *)
(* A file's tree is the sequence of its nodes in pre-order.  A node is a   *)
(* record: type (the grammar's tag), name (what get_node_name returns,     *)
(* NoName for None), row (start_point[0]), text (node.text decoded with    *)
(* replacement), utf8 (whether the node's bytes are valid UTF-8), is_named *)
(* and children, the sequence of its child nodes.                          *)
(***************************************************************************)
NoName == ""

\* "line": None is <<>>, "line": n is <<n>>
NoLine == <<>>

LineOrZero(l) == IF l = NoLine THEN 0 ELSE l[1]

Smell(type, severity, file, line, detail) ==
  [type |-> type, severity |-> severity, file |-> file, line |-> line, detail |-> detail]

\* FileContext(rel_path, lang, ...) as constructed in _parse_file; exc is the
\* exception a visitor raised, "" while none has, and calls the record of the
\* calls of visit made so far: <<visitor, node.type, node.row>> for each.
NewContext(rel_path, lang) ==
  [rel_path |-> rel_path, lang |-> lang,
   classes |-> <<>>, functions |-> <<>>, imports |-> <<>>,
   interfaces |-> <<>>, type_aliases |-> <<>>,
   smells |-> <<>>, function_bodies |-> <<>>, exc |-> "", calls |-> <<>>]

\* node.end_point[0]: the row of the node's last character
EndRow(node) == node.row + CountChar(node.text, "\n")

\* get_import_text: a strict decode, strip, and the cut to 80 characters
get_import_text(node) ==
  LET text == Strip(node.text) IN
  IF Len(text) > 80 THEN SubSeq(text, 1, 77) \o "..." ELSE text

\* The least index of a non-empty set of indices: where a `for` loop over
\* a list first meets an element of the kind
FirstIndex(S) == CHOOSE i \in S : \A j \in S : i <= j

\* What one child of a parameter list adds to params in the inner loop of
\* get_function_params: <<name>> or nothing
ParamName(param) ==
  IF param.type \notin
       {"identifier", "typed_parameter", "typed_default_parameter", "default_parameter",
        "required_parameter", "optional_parameter", "formal_parameter", "parameter"}
  THEN <<>>
  ELSE IF param.name # NoName /\ param.name \notin {"self", "cls"} THEN <<param.name>>
  ELSE IF param.type = "identifier" /\ param.text # "" /\ param.text \notin {"self", "cls"}
       THEN <<param.text>>
  ELSE <<>>

get_function_params(node) ==
  Concat([i \in 1..Len(node.children) |->
            IF node.children[i].type \in
                 {"parameters", "formal_parameters", "parameter_list",
                  "function_value_parameters"}
            THEN Concat([j \in 1..Len(node.children[i].children) |->
                           ParamName(node.children[i].children[j])])
            ELSE <<>>])

nesting_types ==
  {"if_statement", "for_statement", "while_statement", "try_statement",
   "with_statement", "for_in_statement", "if_expression", "match_statement",
   "case_clause", "switch_statement", "for_of_statement"}

RECURSIVE count_nesting_depth(_, _)
count_nesting_depth(node, current_depth) ==
  LET child_depths ==
        {count_nesting_depth(node.children[i],
                             IF node.children[i].type \in nesting_types
                             THEN current_depth + 1 ELSE current_depth) :
           i \in 1..Len(node.children)} \cup {current_depth}
  IN CHOOSE d \in child_depths : \A e \in child_depths : e <= d

\* The second loop of has_docstring, over the children of the body
body_has_docstring(body) ==
  LET firsts == {i \in 1..Len(body.children) : body.children[i].type # "comment"} IN
  /\ firsts # {}
  /\ body.children[FirstIndex(firsts)].type = "expression_statement"
  /\ \E sub \in Range(body.children[FirstIndex(firsts)].children) : sub.type = "string"

has_docstring(node) ==
  LET blocks == {i \in 1..Len(node.children) : node.children[i].type = "block"} IN
  IF blocks = {} THEN TRUE ELSE body_has_docstring(node.children[FirstIndex(blocks)])

\* method_count at the end of the counting loop of ClassVisitor.visit
method_count(node) ==
  SumSeq([i \in 1..Len(node.children) |->
            IF node.children[i].type \in
                 {"block", "class_body", "declaration_list", "field_declaration_list"}
            THEN Cardinality({j \in 1..Len(node.children[i].children) :
                                node.children[i].children[j].type \in
                                  {"function_definition", "method_definition",
                                   "method_declaration", "function_item",
                                   "function_declaration"}})
            ELSE 0])

\* `if method_count > self.config.god_class_methods`
is_god_class(count, config) == count > config.god_class_methods

ClassVisitor(node, ctx, config) ==
  IF node.type \notin NodeTypes(ctx.lang, "classes") THEN ctx
  ELSE IF node.name = NoName THEN ctx
  ELSE LET line == <<node.row + 1>>
           god == IF is_god_class(method_count(node), config)
                  THEN <<Smell("GOD_CLASS", "high", ctx.rel_path, line,
                               node.name \o " has " \o ToString(method_count(node))
                                 \o " methods")>>
                  ELSE <<>>
           nodoc == IF /\ ctx.lang = "python"
                       /\ ~has_docstring(node)
                       /\ ~StartsWith(ctx.rel_path, "tests/")
                    THEN <<Smell("MISSING_DOCSTRING", "low", ctx.rel_path, line,
                                 "class " \o node.name)>>
                    ELSE <<>>
       IN [ctx EXCEPT !.classes = Append(@, node.name),
                      !.smells = @ \o god \o nodoc]

\* The capture test of FunctionVisitor, with the boundary one line off.
captures_body_off_by_one(func_lines) == func_lines > 10

\* `if func_lines >= 10`: the body is stored for duplicate detection
captures_body(func_lines) == func_lines >= 10

\* The long-function test with the threshold itself counted as too long.
is_long_function_inclusive(func_lines, config) == func_lines >= config.long_func_lines

\* `if func_lines > self.config.long_func_lines`
is_long_function(func_lines, config) == func_lines > config.long_func_lines

FunctionVisitor(node, ctx, config) ==
  IF node.type \notin NodeTypes(ctx.lang, "functions") THEN ctx
  ELSE IF node.name = NoName THEN ctx
  ELSE LET name == node.name
           line == <<node.row + 1>>
           func_lines == EndRow(node) - node.row + 1
           depth == count_nesting_depth(node, 0)
           params == get_function_params(node)
           long == IF is_long_function(func_lines, config)
                   THEN <<Smell("LONG_FUNCTION", "medium", ctx.rel_path, line,
                                name \o "() is " \o ToString(func_lines) \o " lines")>>
                   ELSE <<>>
           deep == IF depth > config.deep_nesting_levels
                   THEN <<Smell("DEEP_NESTING", "medium", ctx.rel_path, line,
                                name \o "() has " \o ToString(depth) \o " nesting levels")>>
                   ELSE <<>>
           many == IF Len(params) > config.many_params
                   THEN <<Smell("MANY_PARAMS", "medium", ctx.rel_path, line,
                                name \o "() has " \o ToString(Len(params)) \o " parameters")>>
                   ELSE <<>>
           nodoc == IF /\ ctx.lang = "python"
                       /\ ~has_docstring(node)
                       /\ ~StartsWith(name, "_")
                       /\ ~StartsWith(name, "test_")
                       /\ ~StartsWith(ctx.rel_path, "tests/")
                    THEN <<Smell("MISSING_DOCSTRING", "low", ctx.rel_path, line, name \o "()")>>
                    ELSE <<>>
           body == IF captures_body(func_lines)
                   THEN <<[name |-> name, line |-> node.row + 1, source |-> node.text]>>
                   ELSE <<>>
       IN [ctx EXCEPT !.functions = Append(@, name),
                      !.smells = @ \o long \o deep \o many \o nodoc,
                      !.function_bodies = @ \o body]

ImportVisitor(node, ctx, config) ==
  IF node.type \notin NodeTypes(ctx.lang, "imports") THEN ctx
  ELSE IF ~node.utf8 THEN [ctx EXCEPT !.exc = "UnicodeDecodeError"]
  ELSE LET imp_text == get_import_text(node) IN
       IF imp_text # "" THEN [ctx EXCEPT !.imports = Append(@, imp_text)] ELSE ctx

InterfaceVisitor(node, ctx, config) ==
  IF node.type \notin NodeTypes(ctx.lang, "interfaces") THEN ctx
  ELSE IF node.name # NoName THEN [ctx EXCEPT !.interfaces = Append(@, node.name)] ELSE ctx

TypeAliasVisitor(node, ctx, config) ==
  IF node.type \notin NodeTypes(ctx.lang, "type_aliases") THEN ctx
  ELSE IF node.name # NoName THEN [ctx EXCEPT !.type_aliases = Append(@, node.name)] ELSE ctx

BLOCK_TYPES == {"block", "statement_block", "compound_statement"}

TERMINAL_TYPES ==
  {"return_statement", "raise_statement", "break_statement", "continue_statement",
   "throw_statement"}

SKIP_TYPES == {"comment", "newline", "NEWLINE", "INDENT", "DEDENT"}

\* The finding DeadCodeVisitor appends for the child that follows a terminal
\* statement of type terminal_type
DeadCodeSmell(child, terminal_type, ctx) ==
  Smell("DEAD_CODE", "medium", ctx.rel_path, <<child.row + 1>>,
        "unreachable code after " \o Replace(terminal_type, "_statement", ""))

\* The loop of DeadCodeVisitor.visit over the filtered children: what it
\* appends to ctx.smells
DeadCodeFindings(children, ctx) ==
  LET terminals == {i \in 1..Len(children) : children[i].type \in TERMINAL_TYPES} IN
  IF terminals = {} \/ FirstIndex(terminals) = Len(children) THEN <<>>
  ELSE <<DeadCodeSmell(children[FirstIndex(terminals) + 1],
                       children[FirstIndex(terminals)].type, ctx)>>

DeadCodeVisitor(node, ctx, config) ==
  IF node.type \notin BLOCK_TYPES THEN ctx
  ELSE [ctx EXCEPT !.smells =
          @ \o DeadCodeFindings(
                 SelectSeq(node.children,
                           LAMBDA c : c.is_named /\ c.type \notin SKIP_TYPES), ctx)]

\* is_catchall_except on an except_clause: <<TRUE>> or <<FALSE>>, or <<>>
\* when the strict decode of a child's text raises
is_catchall_except(node) ==
  LET typed == {i \in 1..Len(node.children) :
                  node.children[i].type \in {"identifier", "as_pattern"}}
      named == {i \in typed : Contains(node.children[i].text, "Exception")}
      upto == IF named = {} THEN Len(node.children) ELSE FirstIndex(named)
  IN IF \E i \in typed : i <= upto /\ ~node.children[i].utf8 THEN <<>>
     ELSE IF named # {} THEN <<TRUE>>
     ELSE IF typed # {} \/ Len(node.children) > 3 THEN <<FALSE>>
     ELSE IF \E c \in Range(node.children) : c.text # "" /\ ~c.utf8 THEN <<>>
     ELSE <<(/\ \E c \in Range(node.children) : c.text = "except"
             /\ \A c \in Range(node.children) : c.type # "tuple")>>

CatchAllVisitor(node, ctx, config) ==
  IF ctx.lang # "python" \/ node.type # "except_clause" THEN ctx
  ELSE IF is_catchall_except(node) = <<>> THEN [ctx EXCEPT !.exc = "UnicodeDecodeError"]
  ELSE IF is_catchall_except(node)[1]
  THEN [ctx EXCEPT !.smells = Append(@,
          Smell("CATCH_ALL_EXCEPTION", "high", ctx.rel_path, <<node.row + 1>>,
                Strip(SplitOn(node.text, "\n")[1])))]
  ELSE ctx

\* self._visitors
Visitors ==
  <<"ClassVisitor", "FunctionVisitor", "ImportVisitor", "InterfaceVisitor",
    "TypeAliasVisitor", "CatchAllVisitor", "DeadCodeVisitor">>

\* visitor.visit(node, ctx), the call recorded in ctx.calls
Visit(visitor, node, ctx, config) ==
  LET called == [ctx EXCEPT !.calls = Append(@, <<visitor, node.type, node.row>>)] IN
  CASE visitor = "ClassVisitor" -> ClassVisitor(node, called, config)
    [] visitor = "FunctionVisitor" -> FunctionVisitor(node, called, config)
    [] visitor = "ImportVisitor" -> ImportVisitor(node, called, config)
    [] visitor = "InterfaceVisitor" -> InterfaceVisitor(node, called, config)
    [] visitor = "TypeAliasVisitor" -> TypeAliasVisitor(node, called, config)
    [] visitor = "CatchAllVisitor" -> CatchAllVisitor(node, called, config)
    [] visitor = "DeadCodeVisitor" -> DeadCodeVisitor(node, called, config)

\* One node of _walk_tree: the visitors of self._visitors in their order; an
\* exception raised by one ends the walk.
VisitNode(node, ctx, config) ==
  LET RECURSIVE loop(_, _)
      loop(i, c) ==
        IF i > Len(Visitors) \/ c.exc # "" THEN c
        ELSE loop(i + 1, Visit(Visitors[i], node, c, config))
  IN loop(1, ctx)

RECURSIVE WalkNodes(_, _, _)
\* _walk_tree over the nodes in pre-order
WalkNodes(nodes, ctx, config) ==
  IF nodes = <<>> \/ ctx.exc # "" THEN ctx
  ELSE WalkNodes(Tail(nodes), VisitNode(Head(nodes), ctx, config), config)

\* The module key of a Python file
ModuleName(rel_path) == Replace(Replace(rel_path, "/", "."), ".py", "")

\* The spelling one import text adds to the import graph: <<m>>, or <<>> when
\* the statement is skipped (`continue`)
ImportedModule(imp_text) ==
  LET parts == SplitWs(imp_text) IN
  IF Len(parts) >= 2 /\ parts[1] = "from" THEN <<parts[2]>>
  ELSE IF Len(parts) >= 2 /\ parts[1] = "import" THEN <<RStripChars(parts[2], {","})>>
  ELSE <<>>

(***************************************************************************)
(* detect_circular_imports                                                 *)
(***************************************************************************)
\* The loop of dfs over known_modules with a spelling that matches no key
\* taken for the importing module itself.
RECURSIVE MatchImportOrSelf(_, _, _, _)
MatchImportOrSelf(module, imported, known_order, known_modules) ==
  IF known_order = <<>> THEN <<module>>
  ELSE LET known == Head(known_order)
           parts == SplitOn(module, ".")
           base == Join(".", SubSeq(parts, 1, Len(parts) - 1))
           candidate == base \o imported
       IN IF known = imported \/ EndsWith(known, "." \o imported) THEN <<known>>
          ELSE IF StartsWith(imported, ".") /\ candidate \in known_modules THEN <<candidate>>
          ELSE MatchImportOrSelf(module, imported, Tail(known_order), known_modules)

\* The `for known in known_modules` loop of dfs, known_modules iterated in
\* the order known_order: <<m>> for matched = m, <<>> for matched = None.
RECURSIVE MatchImport(_, _, _, _)
MatchImport(module, imported, known_order, known_modules) ==
  IF known_order = <<>> THEN <<>>
  ELSE LET known == Head(known_order)
           parts == SplitOn(module, ".")
           base == Join(".", SubSeq(parts, 1, Len(parts) - 1))
           candidate == base \o imported
       IN IF known = imported \/ EndsWith(known, "." \o imported) THEN <<known>>
          ELSE IF StartsWith(imported, ".") /\ candidate \in known_modules THEN <<candidate>>
          ELSE MatchImport(module, imported, Tail(known_order), known_modules)

\* path.index(m)
IndexOf(path, m) == CHOOSE i \in 1..Len(path) : path[i] = m /\ \A j \in 1..(i - 1) : path[j] # m

\* The stack test with the module being searched left out.
on_path_below(matched, st) == matched \in Range(SubSeq(st.path, 1, Len(st.path) - 1))

\* `if matched in rec_stack`
in_rec_stack(matched, st) == matched \in st.rec_stack

\* The test for entering a module with a module already searched entered
\* again.
not_on_stack(matched, st) == matched \notin st.rec_stack

\* `elif matched not in visited`
not_visited(matched, st) == matched \notin st.visited

\* The search of find_cycles: visited, rec_stack, the list path of the
\* outermost call and cycles when the loop over known_modules has ended, and
\* entered, the modules dfs was called on, in the order of the calls.  graph
\* is self.import_graph; known_order is the order in which
\* set(graph.keys()) is iterated and imp_order[m] the order in which the
\* set graph[m] is.
dfs_search(graph, known_order, imp_order) ==
  LET known_modules == DOMAIN graph
      RECURSIVE dfs(_, _)
      RECURSIVE imports_loop(_, _, _)
      dfs(module, st) ==
        LET st1 == [st EXCEPT !.visited = @ \cup {module},
                              !.rec_stack = @ \cup {module},
                              !.path = Append(@, module),
                              !.entered = Append(@, module)]
            todo == IF module \in known_modules THEN imp_order[module] ELSE <<>>
            st2 == imports_loop(module, todo, st1)
        IN [st2 EXCEPT !.path = SubSeq(@, 1, Len(@) - 1),
                       !.rec_stack = @ \ {module}]
      imports_loop(module, todo, st) ==
        IF todo = <<>> THEN st
        ELSE LET matched == MatchImport(module, Head(todo), known_order, known_modules)
                 st1 == IF matched = <<>> \/ matched[1] = "" THEN st
                        ELSE IF in_rec_stack(matched[1], st)
                        THEN [st EXCEPT !.cycles =
                                Append(@, SubSeq(st.path, IndexOf(st.path, matched[1]), Len(st.path))
                                          \o <<matched[1]>>)]
                        ELSE IF not_visited(matched[1], st) THEN dfs(matched[1], st)
                        ELSE st
             IN imports_loop(module, Tail(todo), st1)
      RECURSIVE roots(_, _)
      roots(order, st) ==
        IF order = <<>> THEN st
        ELSE roots(Tail(order),
                   IF Head(order) \notin st.visited THEN dfs(Head(order), st) ELSE st)
  IN roots(known_order,
           [visited |-> {}, rec_stack |-> {}, path |-> <<>>, cycles |-> <<>>,
            entered |-> <<>>])

\* find_cycles: the list `cycles`
find_cycles(graph, known_order, imp_order) == dfs_search(graph, known_order, imp_order).cycles

\* `key`: the sorted members of a cycle, the repeated last one left out
CycleKey(cycle) == Join(" -> ", SortedStrs(SubSeq(cycle, 1, Len(cycle) - 1)))

CycleSmell(cycle) ==
  Smell("CIRCULAR_IMPORT", "high", Replace(cycle[1], ".", "/") \o ".py", NoLine,
        Join(" -> ", cycle))

\* The loop over `cycles` without its `seen` test: one finding per cycle found.
CycleSmellsNoDedupe(cycles) == [i \in 1..Len(cycles) |-> CycleSmell(cycles[i])]

\* The loop over `cycles` with its `seen` set: the findings appended
CycleSmells(cycles) ==
  LET RECURSIVE go(_, _)
      go(i, seen) ==
        IF i > Len(cycles) THEN <<>>
        ELSE IF CycleKey(cycles[i]) \in seen THEN go(i + 1, seen)
        ELSE <<CycleSmell(cycles[i])>> \o go(i + 1, seen \cup {CycleKey(cycles[i])})
  IN go(1, {})

(***************************************************************************)
(* detect_unused_imports                                                   *)
(***************************************************************************)
\* item.split(" as ")[-1].strip()
AfterAs(item) == LET f == SplitOn(item, " as ") IN Strip(f[Len(f)])

\* _extract_imported_names
extract_imported_names(imp_text) ==
  LET parts == SplitWs(imp_text) IN
  IF parts = <<>> THEN <<>>
  ELSE IF parts[1] = "from" /\ "import" \in Range(parts) THEN
    LET idx == IndexOf(parts, "import")
        rest == StripChars(Join(" ", SubSeq(parts, idx + 1, Len(parts))), {"(", ")"})
        items == SplitOn(rest, ",")
        one(raw) == LET item == Strip(raw) IN
                    IF Contains(item, " as ") THEN <<AfterAs(item)>>
                    ELSE IF item # "" /\ item # "*" THEN <<item>>
                    ELSE <<>>
    IN Concat([i \in 1..Len(items) |-> one(items[i])])
  ELSE IF parts[1] = "import" THEN
    LET items == SplitOn(Join(" ", SubSeq(parts, 2, Len(parts))), ",")
        one(raw) == LET item == Strip(raw)
                        name == Strip(SplitOn(item, ".")[1])
                    IN IF Contains(item, " as ") THEN <<AfterAs(item)>>
                       ELSE IF name # "" THEN <<name>>
                       ELSE <<>>
    IN Concat([i \in 1..Len(items) |-> one(items[i])])
  ELSE <<>>

\* non_import_text with every line of the file kept.
NonImportTextAllLines(source_text) == Join("\n", SplitLines(source_text))

\* non_import_text of a source text
NonImportText(source_text) ==
  LET lines == SplitLines(source_text)
      keep(line) == LET stripped == Strip(line) IN
                    ~(StartsWith(stripped, "import ") \/ StartsWith(stripped, "from "))
  IN Join("\n", SelectSeq(lines, keep))

\* The findings detect_unused_imports appends for one entry of file_data,
\* source_text being what read_text returns for it
UnusedImportSmells(info, source_text) ==
  IF info.lang # "python" THEN <<>>
  ELSE LET non_import_text == NonImportText(source_text)
           of_names(names) ==
             Concat([k \in 1..Len(names) |->
               IF names[k] # "" /\ names[k] # "*" /\ ~Contains(non_import_text, names[k])
               THEN <<Smell("UNUSED_IMPORT", "low", info.rel_path, NoLine,
                            "'" \o names[k] \o "' appears unused")>>
               ELSE <<>>])
       IN Concat([i \in 1..Len(info.imports) |->
                    of_names(extract_imported_names(info.imports[i]))])

(***************************************************************************)
(* detect_duplicate_logic and difflib.SequenceMatcher(None, a, b)          *)
(***************************************************************************)
\* normalize(source)
normalize(source) ==
  LET lines == SplitLines(source)
      keep(line) == LET stripped == Strip(line) IN
                    stripped # "" /\ ~StartsWith(stripped, "#") /\ ~StartsWith(stripped, "//")
      kept == SelectSeq(lines, keep)
  IN Join("\n", [i \in 1..Len(kept) |-> Strip(kept[i])])

\* SequenceMatcher's `popular` elements of b (autojunk): with 200 or more
\* elements, those that occur more than len(b) // 100 + 1 times are left out
\* of b2j.  isjunk is None, so bjunk is empty.
Popular(b) ==
  IF Len(b) >= 200
  THEN {c \in {Ch(b, i) : i \in 1..Len(b)} : CountChar(b, c) > (Len(b) \div 100) + 1}
  ELSE {}

\* The run of equal elements that starts at a[i] and b[j] (indices from 0 as
\* in Python) and that b2j lets the search see: no popular element is in it
RECURSIVE RunLength(_, _, _, _, _, _, _)
RunLength(a, b, pop, i, j, ahi, bhi) ==
  IF i < ahi /\ j < bhi /\ Ch(a, i + 1) = Ch(b, j + 1) /\ Ch(b, j + 1) \notin pop
  THEN 1 + RunLength(a, b, pop, i + 1, j + 1, ahi, bhi)
  ELSE 0

\* <<i, j, k>> for every i in [alo, ahi) and j in [blo, bhi) where a run of
\* k > 0 elements starts
Runs(a, b, pop, alo, ahi, blo, bhi) ==
  {t \in {<<ij[1], ij[2], RunLength(a, b, pop, ij[1], ij[2], ahi, bhi)>> :
            ij \in (alo..(ahi - 1)) \X (blo..(bhi - 1))} : t[3] > 0}

\* Of the longest runs the one that starts earliest in a and, of those,
\* earliest in b; <<alo, blo, 0>> when there is no run
FirstLongest(runs, alo, blo) ==
  IF runs = {} THEN <<alo, blo, 0>>
  ELSE CHOOSE t \in runs :
         \A o \in runs :
           \/ o[3] < t[3]
           \/ o[3] = t[3] /\ (t[1] < o[1] \/ (t[1] = o[1] /\ t[2] <= o[2]))

\* The equal elements just before a[i] and b[j], popular ones included
RECURSIVE Back(_, _, _, _, _, _)
Back(a, b, alo, blo, i, j) ==
  IF i > alo /\ j > blo /\ Ch(a, i) = Ch(b, j)
  THEN 1 + Back(a, b, alo, blo, i - 1, j - 1) ELSE 0

\* The equal elements from a[i] and b[j] on, popular ones included
RECURSIVE Fwd(_, _, _, _, _, _)
Fwd(a, b, ahi, bhi, i, j) ==
  IF i < ahi /\ j < bhi /\ Ch(a, i + 1) = Ch(b, j + 1)
  THEN 1 + Fwd(a, b, ahi, bhi, i + 1, j + 1) ELSE 0

\* The match m = <<i, j, k>> extended by nb elements before it and by the
\* equal elements after it
Extended(a, b, ahi, bhi, m, nb) ==
  <<m[1] - nb, m[2] - nb, m[3] + nb + Fwd(a, b, ahi, bhi, m[1] + m[3], m[2] + m[3])>>

\* The two extension loops of find_longest_match
Extend(a, b, alo, ahi, blo, bhi, m) ==
  Extended(a, b, ahi, bhi, m, Back(a, b, alo, blo, m[1], m[2]))

\* find_longest_match(alo, ahi, blo, bhi), indices from 0 as in Python; the
\* result is <<besti, bestj, bestsize>>.
find_longest_match(a, b, alo, ahi, blo, bhi) ==
  Extend(a, b, alo, ahi, blo, bhi,
         FirstLongest(Runs(a, b, Popular(b), alo, ahi, blo, bhi), alo, blo))

RECURSIVE MatchedLength(_, _, _, _, _, _)
\* The sizes of the matching blocks to the left and to the right of the
\* match m of a[alo:ahi] and b[blo:bhi], and its own
BlocksAround(a, b, alo, ahi, blo, bhi, m) ==
  IF m[3] = 0 THEN 0
  ELSE m[3]
       + (IF alo < m[1] /\ blo < m[2] THEN MatchedLength(a, b, alo, m[1], blo, m[2]) ELSE 0)
       + (IF m[1] + m[3] < ahi /\ m[2] + m[3] < bhi
          THEN MatchedLength(a, b, m[1] + m[3], ahi, m[2] + m[3], bhi) ELSE 0)

\* sum(triple[-1] for triple in get_matching_blocks())
MatchedLength(a, b, alo, ahi, blo, bhi) ==
  BlocksAround(a, b, alo, ahi, blo, bhi, find_longest_match(a, b, alo, ahi, blo, bhi))

\* ratio() with the factor 2 forgotten.
RatioHalved(a, b) ==
  IF Len(a) + Len(b) = 0 THEN <<1, 1>>
  ELSE <<MatchedLength(a, b, 0, Len(a), 0, Len(b)), Len(a) + Len(b)>>

\* ratio(): the fraction <<numerator, denominator>>, 2.0 * matches / length,
\* and 1.0 when both texts are empty
Ratio(a, b) ==
  IF Len(a) + Len(b) = 0 THEN <<1, 1>>
  ELSE <<2 * MatchedLength(a, b, 0, Len(a), 0, Len(b)), Len(a) + Len(b)>>

\* `if ratio >= 0.8`.
is_duplicate_inclusive(r) == 5 * r[1] >= 4 * r[2]

\* `if ratio > 0.8`
is_duplicate(r) == 5 * r[1] > 4 * r[2]

\* f"{ratio:.0%}": the percentage rounded to the nearest integer, a tie to
\* the even one
Percent(r) ==
  LET q == (100 * r[1]) \div r[2]
      rem2 == 2 * ((100 * r[1]) % r[2])
  IN IF rem2 > r[2] \/ (rem2 = r[2] /\ q % 2 = 1) THEN q + 1 ELSE q

DuplicateSmell(fa, fb, r) ==
  Smell("DUPLICATE_LOGIC", "medium", fa.file, <<fa.line>>,
        fa.name \o "() ~" \o ToString(Percent(r)) \o "% similar to " \o fb.name
          \o "() in " \o fb.file \o ":" \o ToString(fb.line))

\* The pairs (i, j) the two nested loops compare, in their order
ComparedPairs(n) ==
  Concat([i \in 1..n |-> [d \in 1..(n - i) |-> <<i, i + d>>]])

\* The findings detect_duplicate_logic appends; bodies is
\* self._function_bodies, each (file, name, line, source)
DuplicateSmells(bodies) ==
  IF Len(bodies) < 2 THEN <<>>
  ELSE LET normalized == [i \in 1..Len(bodies) |->
                            [bodies[i] EXCEPT !.source = normalize(@)]]
           pairs == ComparedPairs(Len(normalized))
           of_pair(p) == LET fa == normalized[p[1]]
                             fb == normalized[p[2]]
                             r == Ratio(fa.source, fb.source)
                         IN IF is_duplicate(r) THEN <<DuplicateSmell(fa, fb, r)>> ELSE <<>>
       IN Concat([k \in 1..Len(pairs) |-> of_pair(pairs[k])])

(***************************************************************************)
(* format_output                                                           *)
(***************************************************************************)
\* list(dict.fromkeys(s)): the first occurrence of each element, in order
Unique(s) ==
  LET RECURSIVE go(_)
      go(i) == IF i > Len(s) THEN <<>>
               ELSE (IF \A j \in 1..(i - 1) : s[j] # s[i] THEN <<s[i]>> ELSE <<>>) \o go(i + 1)
  IN go(1)

\* f"{n:,}"
RECURSIVE Thousands(_)
Thousands(n) ==
  IF n < 1000 THEN ToString(n)
  ELSE LET r == n % 1000
           pad == IF r < 10 THEN "00" ELSE IF r < 100 THEN "0" ELSE ""
       IN Thousands(n \div 1000) \o "," \o pad \o ToString(r)

\* str.capitalize() of a language name
Capitalize(lang) ==
  LET lower == "abcdefghijklmnopqrstuvwxyz"
      upper == "ABCDEFGHIJKLMNOPQRSTUVWXYZ"
      c == Ch(lang, 1)
      hit == {i \in 1..26 : Ch(lower, i) = c}
  IN IF hit = {} THEN lang
     ELSE Ch(upper, CHOOSE i \in hit : TRUE) \o Tail(lang)

\* The text shown for a list of at most `cap` names, or its first `cap` and
\* the number left out
Capped(names, cap) ==
  IF Len(names) > cap
  THEN Join(", ", SubSeq(names, 1, cap)) \o " ... (+" \o ToString(Len(names) - cap) \o " more)"
  ELSE Join(", ", names)

\* The module names of the "imports:" line of one file
ImportNames(imports) ==
  LET one(imp) == LET parts == SplitWs(imp) IN
                  IF Len(parts) >= 2
                  THEN <<RStripChars(IF parts[1] \in {"import", "from", "#include"}
                                     THEN parts[2] ELSE parts[1], {","})>>
                  ELSE <<>>
  IN Unique(Concat([i \in 1..Len(imports) |-> one(imports[i])]))

\* The Structure lines of one file
FileLines(info) ==
  <<"**" \o info.rel_path \o "** (" \o info.lang \o ", " \o ToString(info.line_count)
      \o " lines)">>
  \o (IF info.classes # <<>> THEN <<"  - classes: " \o Join(", ", info.classes)>> ELSE <<>>)
  \o (IF info.interfaces # <<>>
      THEN <<"  - interfaces: " \o Join(", ", info.interfaces)>> ELSE <<>>)
  \o (IF info.type_aliases # <<>>
      THEN <<"  - types: " \o Join(", ", info.type_aliases)>> ELSE <<>>)
  \o (IF info.functions # <<>>
      THEN <<"  - functions: " \o Capped(info.functions, 20)>> ELSE <<>>)
  \o (IF info.imports # <<>>
      THEN <<"  - imports: " \o Capped(ImportNames(info.imports), 15)>> ELSE <<>>)
  \o <<"">>

\* The "File structure" part: files grouped by top-level directory
StructureLines(file_data) ==
  LET paths == SortedStrs([i \in 1..Len(file_data) |-> file_data[i].rel_path])
      top(rel_path) == LET parts == SplitOn(rel_path, "/") IN
                       IF Len(parts) > 1 THEN parts[1] ELSE "."
      dirs == SortedStrs(Unique([i \in 1..Len(paths) |-> top(paths[i])]))
      info(rel_path) == file_data[CHOOSE i \in 1..Len(file_data) :
                                    file_data[i].rel_path = rel_path]
      of_dir(d) ==
        LET mine == SelectSeq(paths, LAMBDA q : top(q) = d) IN
        <<"## " \o d \o "/\n">> \o Concat([i \in 1..Len(mine) |-> FileLines(info(mine[i]))])
  IN Concat([k \in 1..Len(dirs) |-> of_dir(dirs[k])])

MAX_PER_TYPE == 15

SmellLess(s, t) ==
  \/ StrLess(s.file, t.file)
  \/ s.file = t.file /\ LineOrZero(s.line) < LineOrZero(t.line)

\* The findings of one severity as the report lists them, unsorted.
SortedSmellsUnsorted(items) == items

\* sorted(items, key=lambda x: (x["file"], x.get("line") or 0))
SortedSmells(items) == SortedBy(items, {p \in PairsOf(items) : SmellLess(p[1], p[2])})

\* The findings of one type the report shows, with no cap.
ShownUncapped(type_items) == type_items

\* shown = type_items[:MAX_PER_TYPE]
Shown(type_items) == SubSeq(type_items, 1, Min2(Len(type_items), MAX_PER_TYPE))

\* The lines of one severity of the smell report, items being its findings
SeverityLines(sev, items) ==
  LET label == CASE sev = "high" -> "High Priority"
                 [] sev = "medium" -> "Medium Priority"
                 [] sev = "low" -> "Low Priority"
      sorted == SortedSmells(items)
      types == Unique([i \in 1..Len(sorted) |-> sorted[i].type])
      entry(sm) == "- [" \o sm.type \o "] " \o sm.file
                   \o (IF LineOrZero(sm.line) # 0 THEN ":" \o ToString(sm.line[1]) ELSE "")
                   \o " -- " \o sm.detail
      of_type(ty) ==
        LET type_items == SelectSeq(sorted, LAMBDA sm : sm.type = ty)
            shown == Shown(type_items)
        IN [i \in 1..Len(shown) |-> entry(shown[i])]
           \o (IF Len(type_items) > MAX_PER_TYPE
               THEN <<"  ... and " \o ToString(Len(type_items) - MAX_PER_TYPE) \o " more "
                        \o ty \o " issues">>
               ELSE <<>>)
  IN IF items = <<>> THEN <<>>
     ELSE <<"## " \o label \o "\n">>
          \o Concat([k \in 1..Len(types) |-> of_type(types[k])]) \o <<"">>

\* The findings of the report with no type skipped.
ActiveSmellsUnfiltered(smells, config) == smells

\* active_smells: the findings whose type is not in config.skip_smells
ActiveSmells(smells, config) ==
  SelectSeq(smells, LAMBDA sm : sm.type \notin config.skip_smells)

\* The list `lines` of format_output when it returns.  (The em dash of a
\* finding's line is written "--".)
format_output_lines(files_parsed, file_data, smells, config) ==
  LET active_smells == ActiveSmells(smells, config)
      langs == Unique([i \in 1..Len(file_data) |-> file_data[i].lang])
      count(lang) == Len(SelectSeq(file_data, LAMBDA info : info.lang = lang))
      by_count == SortedBy(langs, {p \in PairsOf(langs) : count(p[1]) > count(p[2])})
      lang_breakdown ==
        Join(", ", [i \in 1..Len(by_count) |->
                      Capitalize(by_count[i]) \o " (" \o ToString(count(by_count[i])) \o ")"])
      total_lines == SumSeq([i \in 1..Len(file_data) |-> file_data[i].line_count])
      total_classes == SumSeq([i \in 1..Len(file_data) |-> Len(file_data[i].classes)])
      total_functions == SumSeq([i \in 1..Len(file_data) |-> Len(file_data[i].functions)])
      of_sev(sev) == SelectSeq(active_smells, LAMBDA sm : sm.severity = sev)
      head ==
        << "# Codebase Structure (" \o ToString(files_parsed) \o " files parsed)\n",
           "## Summary\n",
           "- **Files parsed**: " \o ToString(files_parsed),
           "- **Languages**: " \o lang_breakdown,
           "- **Total lines**: " \o Thousands(total_lines),
           "- **Classes**: " \o ToString(total_classes) \o " | **Functions**: "
             \o ToString(total_functions),
           "- **Smells**: " \o ToString(Len(of_sev("high"))) \o " high, "
             \o ToString(Len(of_sev("medium"))) \o " medium, "
             \o ToString(Len(of_sev("low"))) \o " low",
           "" >>
      smell_lines ==
        IF active_smells # <<>>
        THEN <<"\n# Code Smells (" \o ToString(Len(active_smells)) \o " issues found)\n">>
             \o SeverityLines("high", of_sev("high"))
             \o SeverityLines("medium", of_sev("medium"))
             \o SeverityLines("low", of_sev("low"))
        ELSE <<"\n# Code Smells (0 issues found)\n", "No code smells detected. Nice!\n">>
  IN head \o StructureLines(file_data) \o smell_lines

\* format_output(): the report text, "\n".join(lines)
format_output(files_parsed, file_data, smells, config) ==
  Join("\n", format_output_lines(files_parsed, file_data, smells, config))

(***************************************************************************)
(* The inputs: a directory tree, its files as tree-sitter parses them, the *)
(* outcome of loading each grammar, and the configuration                  *)
(***************************************************************************)
\* The most runs of main() a behaviour makes over the one tree
MaxRuns == 2

RECURSIVE Rep(_, _)
Rep(str, n) ==
  IF n <= 0 THEN ""
  ELSE LET half == Rep(str, n \div 2)
       IN half \o half \o (IF n % 2 = 1 THEN str ELSE "")

\* A node whose row is counted from the start of the top-level statement it
\* belongs to
Node(type, name, row, text, children) ==
  [type |-> type, name |-> name, row |-> row, text |-> text, utf8 |-> TRUE,
   is_named |-> TRUE, children |-> children]

\* A top-level statement of a file without children, before its row is known
Stmt(type, name, text) == Node(type, name, 0, text, <<>>)

RECURSIVE Shift(_, _)
\* The node with the rows of its tree counted from the start of the file
Shift(node, d) ==
  [node EXCEPT !.row = node.row + d,
               !.children = [i \in 1..Len(node.children) |-> Shift(node.children[i], d)]]

RECURSIVE PreOrder(_)
\* The nodes of a tree in the order _walk_tree visits them
PreOrder(node) ==
  <<node>> \o Concat([i \in 1..Len(node.children) |-> PreOrder(node.children[i])])

\* A file holding the statements stmts one after the other; status says what
\* reading and parsing it do: "ok", "unreadable" (read_bytes raises OSError)
\* or "parse_raises" (parser.parse raises).
BuildFile(path, status, stmts) ==
  LET rows(k) == SumSeq([i \in 1..(k - 1) |-> CountChar(stmts[i].text, "\n") + 1])
  IN [path |-> path, status |-> status,
      source |-> Join("\n", [i \in 1..Len(stmts) |-> stmts[i].text]),
      tree |-> [k \in 1..Len(stmts) |-> Shift(stmts[k], rows(k))]]

\* tree.root_node: the node of the whole file, its children the top-level
\* statements
Root(file) ==
  LET name == file.path[Len(file.path)]
      lang == IF Suffix(name) \in DOMAIN EXT_TO_LANG THEN EXT_TO_LANG[Suffix(name)] ELSE ""
  IN Node(CASE lang = "python" -> "module"
            [] lang \in {"rust", "go", "kotlin"} -> "source_file"
            [] lang \in {"c", "cpp"} -> "translation_unit"
            [] OTHER -> "program",
          NoName, 0, file.source, file.tree)

\* The nodes of a file in the order _walk_tree visits them
NodesOf(file) == PreOrder(Root(file))

AllLoaded == [l \in Range(LoaderOrder) |-> "ok"]

PyImport(text) ==
  Stmt(IF StartsWith(text, "from") THEN "import_from_statement" ELSE "import_statement",
       NoName, text)

PyFunc(name, text) == Stmt("function_definition", name, text)

\* A function of 10 lines that a short file would hold
TenLines == "def g():" \o Rep("\n", 8) \o "\n  pass"

\* Trees for the walk: ignored directories at several depths, a directory
\* whose name only ends with an ignored name, an unknown extension
WalkFiles(st_m, st_a, st_f, utf8_m) ==
  { BuildFile(<<"m.py">>, st_m, <<[PyImport("import a") EXCEPT !.utf8 = utf8_m]>>),
    BuildFile(<<"s", "a.py">>, st_a, <<PyFunc("g", TenLines)>>),
    BuildFile(<<"build", "b.py">>, "ok", <<PyImport("import m"), PyFunc("g", TenLines)>>),
    BuildFile(<<"s", "build", "c.py">>, "ok", <<PyImport("import m"), PyFunc("g", TenLines)>>),
    BuildFile(<<"s", "build", "t", "d.py">>, "ok", <<PyImport("import m")>>),
    BuildFile(<<"x.egg-info", "e.py">>, "ok", <<PyImport("import m")>>),
    BuildFile(<<"gen", "g.py">>, "ok", <<PyImport("import m")>>),
    BuildFile(<<"rebuild", "f.js">>, st_f,
              <<Stmt("function_declaration", "h", "function h() {}")>>),
    BuildFile(<<"notes.txt">>, "ok", <<>>) }

FileStatuses == {"ok", "unreadable", "parse_raises"}

WalkWorlds ==
  \* every extra ignore set of a small family
  { [files |-> WalkFiles("ok", "ok", "ok", TRUE), loaders |-> AllLoaded,
     config |-> [DefaultConfig EXCEPT !.extra_ignore_dirs = ig]] :
      ig \in {{}, {"gen"}, {"s"}, {"*"}, {"*ild"}, {"uil"}} }
  \cup
  \* every outcome of loading the python and the javascript grammar
  { [files |-> WalkFiles("ok", "ok", "ok", TRUE),
     loaders |-> [AllLoaded EXCEPT !["python"] = lp, !["javascript"] = lj],
     config |-> DefaultConfig] : lp \in LoadOutcomes, lj \in LoadOutcomes }
  \cup
  \* files that cannot be read or parsed, an import whose bytes are not UTF-8
  { [files |-> WalkFiles(sm, sa, sf, u), loaders |-> AllLoaded, config |-> DefaultConfig] :
      sm \in FileStatuses, sa \in FileStatuses, sf \in {"ok", "unreadable"},
      u \in BOOLEAN }

\* Trees for the import graph: four modules, two of them named b
CycleImportsA == {<<>>, <<"import b">>, <<"from p.b import x">>, <<"import a">>}

CycleImportsPB == {<<>>, <<"import a">>, <<"from .c import y">>,
                   <<"from .c import y", "import a">>}

CycleImportsPC == {<<>>, <<"import b", "from p.b import x">>, <<"from . import b">>,
                   <<"import a">>, <<"import zz">>}

CycleImportsQB == {<<>>, <<"import a">>}

ImportFile(path, imports) ==
  BuildFile(path, "ok", [i \in 1..Len(imports) |-> PyImport(imports[i])])

CycleWorlds ==
  { [files |-> { ImportFile(<<"a.py">>, ia), ImportFile(<<"p", "b.py">>, ipb),
                 ImportFile(<<"p", "c.py">>, ipc), ImportFile(<<"q", "b.py">>, iqb) },
     loaders |-> AllLoaded, config |-> DefaultConfig] :
      ia \in CycleImportsA, ipb \in CycleImportsPB,
      ipc \in CycleImportsPC, iqb \in CycleImportsQB }
  \cup
  \* two modules that import each other, one of them through the second
  \* module of its import statement
  { [files |-> { ImportFile(<<"a.py">>, <<"import zz, b">>), ImportFile(<<"b.py">>, <<"import a">>) },
     loaders |-> AllLoaded, config |-> DefaultConfig] }

\* Trees for the duplicate search: function texts of 9, 10 and 11 lines whose
\* normalized texts are equal, nearly equal, or share no character
BodyTexts ==
  [ a10 |-> "ab" \o Rep("\n", 9) \o "cd",
    a11 |-> "ab\n# x\n" \o Rep("\n", 8) \o "  cd",
    b10 |-> "ab" \o Rep("\n", 9) \o "cx",
    a9  |-> "ab" \o Rep("\n", 8) \o "cd",
    d10 |-> "yz" \o Rep("\n#", 9),
    e10 |-> "uvw" \o Rep("\n//", 9),
    g10 |-> "ab" \o Rep("\n", 9) \o "cde" ]

PyBodies == {"a10", "a11", "b10", "a9", "d10", "g10"}

JsBodies == {"a10", "e10", "a9"}

DupWorlds ==
  { [files |-> { BuildFile(<<"u.py">>, "ok",
                           <<PyFunc(f1, BodyTexts[f1]), PyFunc(f2, BodyTexts[f2])>>),
                 BuildFile(<<"v.js">>, "ok", js) },
     loaders |-> AllLoaded, config |-> DefaultConfig] :
      f1 \in PyBodies, f2 \in PyBodies,
      js \in { <<>> } \cup { <<Stmt("function_declaration", f, BodyTexts[f])>> : f \in JsBodies }
                     \cup { <<Stmt("arrow_function", NoName, BodyTexts["a10"])>>,
                            <<Stmt("arrow_function", NoName, BodyTexts["a10"]),
                              Stmt("function_declaration", "a10", BodyTexts["a10"])>> } }
  \cup
  \* a module that imports itself and holds the same function twice, and a
  \* JavaScript function with a block comment and a private field on lines
  \* of their own
  { [files |-> { BuildFile(<<"u.py">>, "ok",
                           <<PyImport("import u"), PyFunc("a10", BodyTexts["a10"]),
                             PyFunc("a11", BodyTexts["a11"])>>),
                 BuildFile(<<"v.js">>, "ok",
                           <<Stmt("function_declaration", "k",
                                  "ab\n  /* c */\n  #p = 1;" \o Rep("\n", 8) \o "cd")>>) },
     loaders |-> AllLoaded, config |-> DefaultConfig] }

\* Python parameter lists as tree-sitter-python parses them: bare, typed
\* and default parameters, a leading self, a trailing *args
ParamLists ==
  LET Ident(text) == Node("identifier", NoName, 0, text, <<>>)
      five == <<Ident("a"), Ident("b"), Ident("c"), Ident("d"), Ident("e")>>
  IN [ five      |-> five,
       six       |-> <<Ident("a"), Node("typed_parameter", "b", 0, "b: int", <<>>),
                       Node("default_parameter", "c", 0, "c=1", <<>>),
                       Node("typed_default_parameter", "d", 0, "d: int = 1", <<>>),
                       Ident("e"), Ident("f")>>,
       self_five |-> <<Ident("self")>> \o five,
       five_star |-> five \o <<Node("list_splat_pattern", "args", 0, "*args", <<>>)>> ]

RECURSIVE Nested(_, _)
\* The statements of a block: control statements of the types given, each
\* in the block of the one before, the first on row `row`.  The text of a
\* node that no visitor reads is left empty.
Nested(types, row) ==
  IF types = <<>> THEN <<Node("pass_statement", NoName, row, "pass", <<>>)>>
  ELSE <<Node(Head(types), NoName, row, "",
              <<Node("block", NoName, row + 1, "", Nested(Tail(types), row + 1))>>)>>

\* A Python function definition of `lines` lines: its name, its parameters
\* and its block, which starts with a docstring if doc
PyDef(name, params, doc, body, lines) ==
  LET docstring == Node("expression_statement", NoName, 1, "",
                        <<Node("string", NoName, 1, "'''d'''", <<>>)>>)
  IN Node("function_definition", name, 0,
          "def " \o name \o "():" \o Rep("\n  pass", lines - 1),
          <<Node("identifier", NoName, 0, name, <<>>),
            Node("parameters", NoName, 0, "", params),
            Node("block", NoName, 1, "", (IF doc THEN <<docstring>> ELSE <<>>) \o body)>>)

\* Trees for the function checks: one function whose span is the value of
\* --long-func or one more, with 5 or 6 parameters and 4 or 5 nesting levels
FuncWorlds ==
  LET control == <<"if_statement", "for_statement", "while_statement", "try_statement",
                   "with_statement">>
  IN { [files |-> { BuildFile(<<"f.py">>, "ok",
                              <<PyDef("f", ParamLists[p], d,
                                      Nested(SubSeq(control, 1, n), 2), t + over)>>) },
        loaders |-> AllLoaded, config |-> [DefaultConfig EXCEPT !.long_func_lines = t]] :
         p \in DOMAIN ParamLists, d \in BOOLEAN, n \in {4, 5}, t \in {8, 9, 50},
         over \in {0, 1} }

\* A Python class definition: `plain` methods one to a line, then
\* `decorated` methods under a decorator each, then, if nested, an inner
\* class with two methods of its own
PyClass(name, plain, decorated, nested) ==
  LET Method(i, row) ==
        Node("function_definition", "m" \o ToString(i), row, "def m" \o ToString(i) \o "(self): pass",
             <<Node("identifier", NoName, row, "m" \o ToString(i), <<>>),
               Node("parameters", NoName, row, "(self)",
                    <<Node("identifier", NoName, row, "self", <<>>)>>),
               Node("block", NoName, row, "pass",
                    <<Node("pass_statement", NoName, row, "pass", <<>>)>>)>>)
      Decorated(j, row) ==
        Node("decorated_definition", NoName, row, "",
             <<Node("decorator", NoName, row, "@staticmethod", <<>>), Method(plain + j, row + 1)>>)
      last == plain + 2 * decorated
      Inner == Node("class_definition", "Inner", last + 1, "",
                    <<Node("identifier", NoName, last + 1, "Inner", <<>>),
                      Node("block", NoName, last + 2, "",
                           <<Method(98, last + 2), Method(99, last + 3)>>)>>)
  IN Node("class_definition", name, 0,
          "class " \o name \o ":" \o Rep("\n  pass", last + (IF nested THEN 3 ELSE 0)),
          <<Node("identifier", NoName, 0, name, <<>>),
            Node("block", NoName, 1, "",
                 [i \in 1..plain |-> Method(i, i)]
                 \o [j \in 1..decorated |-> Decorated(j, plain + 2 * j - 1)]
                 \o (IF nested THEN <<Inner>> ELSE <<>>))>>)

\* Trees for the class checks: one class whose methods are as many as the
\* value of --god-class, one fewer or one more, the last of them plain or
\* under a decorator
ClassWorlds ==
  { [files |-> { BuildFile(<<"k.py">>, "ok", <<PyClass("K", t + d - dec, dec, nested)>>) },
     loaders |-> AllLoaded, config |-> [DefaultConfig EXCEPT !.god_class_methods = t]] :
      t \in {2, 15}, d \in {-1, 0, 1}, dec \in {0, 1}, nested \in BOOLEAN }

\* Trees for the unused-import pass: one import statement (plain, dotted,
\* aliased, wildcard, parenthesised over several lines, longer than 80
\* characters), followed by nothing, by a use of its name, by another import
\* statement that spells its name, or by a use of other names
UnusedWorlds ==
  LET first == {"import os", "import os.path", "import numpy as np", "from a.b import c",
                "from a import c as d", "from a import *",
                "from pkg import (\n    alpha_helper,\n)",
                "from toolkit import alpha_helper, beta_helper, gamma_helper, "
                  \o "delta_helper, epsilon_helper"}
      rest == {<<>>,
               <<Stmt("expression_statement", NoName, "print(os.getcwd())")>>,
               <<PyImport("import posixpath")>>,
               <<Stmt("expression_statement", NoName,
                      "use(np, c, path, alpha_helper, epsilon_helper)")>>}
  IN { [files |-> { BuildFile(<<"u.py">>, "ok", <<PyImport(i)>> \o r) },
        loaders |-> AllLoaded, config |-> DefaultConfig] : i \in first, r \in rest }

\* Trees for the report: a file that imports 14 to 16 modules it does not
\* use and holds an undocumented function, at the root and so scanned
\* before a file in a directory that holds findings of every severity,
\* under several values of --skip-smells
ReportWorlds ==
  LET control == <<"if_statement", "for_statement", "while_statement", "try_statement",
                   "with_statement">>
      pass == <<Node("pass_statement", NoName, 2, "pass", <<>>)>>
  IN { [files |-> { BuildFile(<<"z.py">>, "ok",
                              <<PyImport("import " \o Join(", ", [i \in 1..n |->
                                                                     "m" \o ToString(i)])),
                                PyDef("h", <<>>, FALSE, pass, 3)>>),
                    BuildFile(<<"a", "b.py">>, "ok",
                              <<PyImport("import q"), PyClass("K", 3, 0, FALSE),
                                PyDef("g", ParamLists["six"], FALSE, Nested(control, 2), 9)>>) },
        loaders |-> AllLoaded,
        config |-> [DefaultConfig EXCEPT !.god_class_methods = 2, !.long_func_lines = 8,
                                         !.skip_smells = skip]] :
         n \in {14, 15, 16},
         skip \in {{}, {"UNUSED_IMPORT"}, {"GOD_CLASS", "MISSING_DOCSTRING"},
                   {"LONG_FUNCTION", "DEEP_NESTING", "NO_SUCH_SMELL"}} }

\* Trees for the large-file check: one file whose only statement spans as
\* many lines as the value of --large-file or one more, its last line ended
\* by a newline or not, that can be read and parsed or not
LargeWorlds ==
  LET file(lines, nl, status) ==
        [BuildFile(<<"big.py">>, status,
                   <<Stmt("expression_statement", NoName,
                          "(" \o Rep("\n 1,", lines - 2) \o "\n)")>>)
           EXCEPT !.source = IF nl THEN @ \o "\n" ELSE @]
  IN { [files |-> { file(t + over, nl, status) }, loaders |-> AllLoaded,
        config |-> [DefaultConfig EXCEPT !.large_file_lines = t]] :
         t \in {3, 500}, over \in {0, 1}, nl \in BOOLEAN, status \in FileStatuses }

\* Statements without children, one to a row from `row` on
Stmts(types, row) == [i \in 1..Len(types) |-> Node(types[i], NoName, row + i - 1, "", <<>>)]

\* A token of the grammar that is no named node, such as a brace
Token(text, row) == [Node(text, NoName, row, text, <<>>) EXCEPT !.is_named = FALSE]

\* A JavaScript function declaration: its body is a statement_block between
\* two braces
JsFunction(name, body) ==
  Node("function_declaration", name, 0,
       "function " \o name \o "() {" \o Rep("\n  x;", Len(body)) \o "\n}",
       <<Node("identifier", NoName, 0, name, <<>>),
         Node("formal_parameters", NoName, 0, "()", <<>>),
         Node("statement_block", NoName, 0, "",
              <<Token("{", 0)>> \o body \o <<Token("}", Len(body) + 1)>>)>>)

\* A Java class with one method; tree-sitter-java names its comments
\* line_comment and block_comment
JavaClass(name, body) ==
  Node("class_declaration", name, 0,
       "class " \o name \o " {\n  void f() {" \o Rep("\n    x;", Len(body)) \o "\n  }\n}",
       <<Node("identifier", NoName, 0, name, <<>>),
         Node("class_body", NoName, 0, "",
              <<Node("method_declaration", "f", 1, "",
                     <<Node("identifier", NoName, 1, "f", <<>>),
                       Node("formal_parameters", NoName, 1, "()", <<>>),
                       Node("block", NoName, 1, "", body)>>)>>)>>)

\* Trees for the dead-code check: one function whose block holds statements
\* and comments before and after a return, raise, break, continue or throw,
\* and a loop whose own block does
DeadWorlds ==
  LET flat == {<<"expression_statement", "return_statement">>,
               <<"return_statement", "expression_statement">>,
               <<"return_statement", "expression_statement", "expression_statement">>,
               <<"return_statement", "comment">>,
               <<"return_statement", "comment", "expression_statement">>,
               <<"raise_statement", "return_statement", "expression_statement">>,
               <<"expression_statement", "comment", "expression_statement">>}
      loop == <<Node("for_statement", NoName, 2, "",
                     <<Node("block", NoName, 3, "",
                            Stmts(<<"continue_statement", "expression_statement",
                                    "break_statement", "expression_statement">>, 3))>>)>>
                 \o Stmts(<<"return_statement", "expression_statement",
                            "expression_statement">>, 7)
      py == {PyDef("f", <<>>, TRUE, Stmts(types, 2), 10) : types \in flat}
              \cup {PyDef("f", <<>>, TRUE, loop, 10)}
      js == {JsFunction("g", Stmts(types, 1)) :
               types \in {<<"throw_statement", "comment", "expression_statement">>,
                          <<"expression_statement", "return_statement", "comment">>}}
      java == {JavaClass("A", Stmts(types, 2)) :
                 types \in {<<"return_statement", "expression_statement">>,
                            <<"expression_statement", "return_statement", "line_comment">>,
                            <<"expression_statement", "block_comment", "return_statement">>}}
  IN { [files |-> { BuildFile(<<"d.py">>, "ok", <<stmt>>) }, loaders |-> AllLoaded,
        config |-> DefaultConfig] : stmt \in py }
     \cup { [files |-> { BuildFile(<<"d.js">>, "ok", <<stmt>>) }, loaders |-> AllLoaded,
             config |-> DefaultConfig] : stmt \in js }
     \cup { [files |-> { BuildFile(<<"A.java">>, "ok", <<stmt>>) }, loaders |-> AllLoaded,
             config |-> DefaultConfig] : stmt \in java }

\* Trees whose paths have a '.' or '.py' inside a directory or file name:
\* two modules of a directory v1.2 that import each other, a file a.b.py
\* beside a file b.py of a directory a, and a module pytest_utils
KeyWorlds ==
  { [files |-> { ImportFile(<<"v1.2", "a.py">>, ia), ImportFile(<<"v1.2", "b.py">>, <<"import a">>) },
     loaders |-> AllLoaded, config |-> DefaultConfig] : ia \in {<<"import b">>, <<"import zz">>} }
  \cup
  { [files |-> { ImportFile(<<"a", "b.py">>, <<"import x">>), ImportFile(<<"a.b.py">>, iab) },
     loaders |-> AllLoaded, config |-> DefaultConfig] : iab \in {<<"import y">>, <<"import b">>} }
  \cup
  { [files |-> { ImportFile(<<"pkg", "pytest_utils.py">>, <<"import pkg.helpers">>),
                 ImportFile(<<"pkg", "helpers.py">>, <<"import pkg.pytest_utils">>) },
     loaders |-> AllLoaded, config |-> DefaultConfig] }

\* Trees for the catch-all check: one try statement whose except clause is
\* bare, names Exception, names another exception, or names a tuple of them
ExceptWorlds ==
  LET clause(text, caught) ==
        Node("except_clause", NoName, 2, text \o "\n    pass",
             <<Token("except", 2)>> \o caught
               \o <<Token(":", 2), Node("block", NoName, 3, "pass", Stmts(<<"pass_statement">>, 3))>>)
      try(text, caught) ==
        Node("try_statement", NoName, 0, "try:\n  pass\n" \o text \o "\n    pass",
             <<Token("try", 0), Token(":", 0),
               Node("block", NoName, 1, "pass", Stmts(<<"pass_statement">>, 1)),
               clause(text, caught)>>)
      clauses ==
        {try("except:", <<>>),
         try("except Exception:", <<Node("identifier", NoName, 2, "Exception", <<>>)>>),
         try("except ValueError:", <<Node("identifier", NoName, 2, "ValueError", <<>>)>>),
         try("except (KeyError, OSError):",
             <<Node("tuple", NoName, 2, "(KeyError, OSError)", <<>>)>>)}
  IN { [files |-> { BuildFile(<<"e.py">>, "ok", <<stmt>>) }, loaders |-> AllLoaded,
        config |-> DefaultConfig] : stmt \in clauses }

Worlds ==
  WalkWorlds \cup CycleWorlds \cup DupWorlds \cup FuncWorlds \cup ClassWorlds \cup UnusedWorlds
    \cup ReportWorlds \cup LargeWorlds \cup DeadWorlds \cup KeyWorlds \cup ExceptWorlds

(***************************************************************************)
(* State                                                                   *)
(***************************************************************************)
VARIABLES
  world,            \* the input: tree, grammars' load outcomes, configuration
  run,              \* which run of main() over the tree this is
  pc,               \* where main() is: the call it makes next, "done", "aborted"
  exc,              \* the uncaught exception that ended the run, "" if none
  log,              \* the calls main() has made in this run, in order
  listing,          \* the order in which the file system lists each directory
  LANGUAGES,        \* _LANGUAGES: the languages whose grammar is loaded
  PARSERS,          \* _PARSERS: the languages get_parser has a parser for
  walk_stack,       \* scan: the directories os.walk has still to yield
  cur_dir,          \* scan: the directory whose files are being parsed
  file_queue,       \* scan: its sorted file names not yet met
  files_parsed,     \* self.files_parsed
  file_data,        \* self.file_data, in insertion order
  smells,           \* self.smells
  import_graph,     \* self.import_graph
  function_bodies,  \* self._function_bodies
  report,           \* what format_output returned in this run
  prev_report       \* the report of the run before

vars == <<world, run, pc, exc, log, listing, LANGUAGES, PARSERS, walk_stack, cur_dir,
          file_queue, files_parsed, file_data, smells, import_graph, function_bodies,
          report, prev_report>>

NoReport == <<"no report">>

\* The state of a fresh process about to call _load_languages, and of the
\* CodebaseMapper main() constructs
FreshProcess ==
  /\ pc = "load"
  /\ exc = ""
  /\ log = <<>>
  /\ LANGUAGES = {}
  /\ PARSERS = {}
  /\ walk_stack = <<>>
  /\ cur_dir = <<>>
  /\ file_queue = <<>>
  /\ files_parsed = 0
  /\ file_data = <<>>
  /\ smells = <<>>
  /\ import_graph = [m \in {} |-> {}]
  /\ function_bodies = <<>>
  /\ report = NoReport

Init ==
  /\ world \in Worlds
  /\ run = 1
  /\ listing = [d \in {} |-> <<>>]
  /\ prev_report = NoReport
  /\ FreshProcess

(***************************************************************************)
(* main(): the order of its calls                                          *)
(***************************************************************************)
\* main() with the cycle detection called before the scan.
MainCallsCyclesFirst == <<"load", "cycles", "scan", "unused", "dups", "format", "done">>

\* _load_languages(), mapper.scan(), mapper.detect_circular_imports(),
\* mapper.detect_unused_imports(), mapper.detect_duplicate_logic(),
\* print(mapper.format_output())
MainCalls == <<"load", "scan", "cycles", "unused", "dups", "format", "done">>

\* The call of main() that follows call p
After(p) == MainCalls[IndexOf(MainCalls, p) + 1]

(***************************************************************************)
(* _load_languages                                                         *)
(***************************************************************************)
\* The first loader, in dict order, whose exception no except clause
\* catches; 0 if there is none
FirstUncaught(loaders) ==
  LET bad == {i \in 1..Len(LoaderOrder) : loaders[LoaderOrder[i]] \notin LoadCaught \cup {"ok"}}
  IN IF bad = {} THEN 0 ELSE CHOOSE i \in bad : \A j \in bad : i <= j

\* _LANGUAGES after the loop has run over the first n loaders
LoadedAmong(loaders, n) == {LoaderOrder[i] : i \in {k \in 1..n : loaders[LoaderOrder[k]] = "ok"}}

LoadLanguages ==
  /\ pc = "load"
  /\ log' = Append(log, "load")
  /\ LET k == FirstUncaught(world.loaders) IN
     IF k = 0
     THEN /\ LANGUAGES' = LoadedAmong(world.loaders, Len(LoaderOrder))
          /\ pc' = After("load")
          /\ exc' = exc
     ELSE /\ LANGUAGES' = LoadedAmong(world.loaders, k - 1)
          /\ pc' = "aborted"
          /\ exc' = world.loaders[LoaderOrder[k]]
  /\ UNCHANGED <<world, run, listing, PARSERS, walk_stack, cur_dir, file_queue,
                 files_parsed, file_data, smells, import_graph, function_bodies,
                 report, prev_report>>

(***************************************************************************)
(* CodebaseMapper.scan                                                     *)
(***************************************************************************)
\* self._ignore_dirs
IgnoreDirs(config) == DEFAULT_IGNORE_DIRS \cup config.extra_ignore_dirs

\* What os.walk finds in directory dir of the tree
FileNames(files, dir) ==
  {f.path[Len(f.path)] : f \in {g \in files : SubSeq(g.path, 1, Len(g.path) - 1) = dir}}

DirNames(files, dir) ==
  {f.path[Len(dir) + 1] :
     f \in {g \in files : Len(g.path) > Len(dir) + 1 /\ SubSeq(g.path, 1, Len(dir)) = dir}}

\* sorted(filenames)
SortedNames(names) == SortedStrs(CHOOSE p \in Perms(names) : TRUE)

\* The directories os.walk has still to yield; before its first step, the root
Pending == IF "scan" \in Range(log) THEN walk_stack ELSE << <<>> >>

\* scan() returns when the walk has nothing left
PcInScan(stack, queue) == IF stack = <<>> /\ queue = <<>> THEN After("scan") ELSE "scan"

\* One iteration of `for dirpath, dirnames, filenames in os.walk(self.root)`
\* up to the loop over the files
ScanDir ==
  /\ pc = "scan"
  /\ file_queue = <<>>
  /\ Pending # <<>>
  /\ log' = IF "scan" \in Range(log) THEN log ELSE Append(log, "scan")
  /\ LET dir == Head(Pending)
         rest == Tail(Pending)
         ignore == IgnoreDirs(world.config)
     IN IF should_ignore(dir, ignore)
        THEN /\ walk_stack' = rest
             /\ file_queue' = <<>>
             /\ UNCHANGED <<cur_dir, listing>>
             /\ pc' = PcInScan(rest, <<>>)
        ELSE LET kept == {d \in DirNames(world.files, dir) :
                            ~should_ignore(Append(dir, d), ignore)}
                 names == SortedNames(FileNames(world.files, dir))
             IN \E order \in Perms(kept) :
                  /\ dir \in DOMAIN listing => listing[dir] = order
                  /\ listing' = [d \in DOMAIN listing \cup {dir} |->
                                   IF d = dir THEN order ELSE listing[d]]
                  /\ walk_stack' = [i \in 1..Len(order) |-> Append(dir, order[i])] \o rest
                  /\ cur_dir' = dir
                  /\ file_queue' = names
                  /\ pc' = PcInScan(walk_stack', names)
  /\ UNCHANGED <<world, run, exc, LANGUAGES, PARSERS, files_parsed, file_data, smells,
                 import_graph, function_bodies, report, prev_report>>

\* file_data keyed by the language of the file instead of its path
DictSetByLang(data, info) ==
  IF \E i \in 1..Len(data) : data[i].lang = info.lang
  THEN [i \in 1..Len(data) |-> IF data[i].lang = info.lang THEN info ELSE data[i]]
  ELSE Append(data, info)

\* self.file_data[rel_path] = info
DictSet(data, info) ==
  IF \E i \in 1..Len(data) : data[i].rel_path = info.rel_path
  THEN [i \in 1..Len(data) |-> IF data[i].rel_path = info.rel_path THEN info ELSE data[i]]
  ELSE Append(data, info)

\* self.import_graph[module_name].add(imported_module) for every import text
GraphAdd(graph, module_name, imports) ==
  LET added == {ImportedModule(imports[i])[1] :
                  i \in {k \in 1..Len(imports) : ImportedModule(imports[k]) # <<>>}}
  IN IF added = {} THEN graph
     ELSE [m \in DOMAIN graph \cup {module_name} |->
             (IF m \in DOMAIN graph THEN graph[m] ELSE {})
               \cup (IF m = module_name THEN added ELSE {})]

\* _parse_file(fpath, rel_path, lang) on the mapper state st =
\* [parsers, files_parsed, file_data, smells, import_graph, function_bodies,
\*  exc]; languages is _LANGUAGES.
parse_file(file, rel_path, lang, st, languages, config) ==
  IF file.status = "unreadable" THEN st
  ELSE IF lang \notin st.parsers /\ lang \notin languages THEN st
  ELSE LET st1 == [st EXCEPT !.parsers = @ \cup {lang}] IN
    IF file.status = "parse_raises" THEN st1
    ELSE LET line_count == CountChar(file.source, "\n") + 1
             large == IF line_count > config.large_file_lines
                      THEN <<Smell("LARGE_FILE", "low", rel_path, NoLine,
                                   Thousands(line_count) \o " lines")>>
                      ELSE <<>>
             st2 == [st1 EXCEPT !.files_parsed = @ + 1, !.smells = @ \o large]
             ctx == WalkNodes(NodesOf(file), NewContext(rel_path, lang), config)
         IN IF ctx.exc # "" THEN [st2 EXCEPT !.exc = ctx.exc]
            ELSE [st2 EXCEPT
                    !.smells = @ \o ctx.smells,
                    !.function_bodies = @ \o
                       [i \in 1..Len(ctx.function_bodies) |->
                          [file |-> rel_path, name |-> ctx.function_bodies[i].name,
                           line |-> ctx.function_bodies[i].line,
                           source |-> ctx.function_bodies[i].source]],
                    !.import_graph = IF lang = "python"
                                     THEN GraphAdd(@, ModuleName(rel_path), ctx.imports)
                                     ELSE @,
                    !.file_data = DictSet(@,
                       [rel_path |-> rel_path, lang |-> lang, classes |-> ctx.classes,
                        functions |-> ctx.functions, imports |-> ctx.imports,
                        interfaces |-> ctx.interfaces, type_aliases |-> ctx.type_aliases,
                        line_count |-> line_count])]

FileAt(path) == CHOOSE f \in world.files : f.path = path

\* One iteration of `for fname in sorted(filenames)`: the extension test and
\* the call of _parse_file
ScanFile ==
  /\ pc = "scan"
  /\ file_queue # <<>>
  /\ LET fname == Head(file_queue)
         path == Append(cur_dir, fname)
         ext == Suffix(fname)
         st == [parsers |-> PARSERS, files_parsed |-> files_parsed, file_data |-> file_data,
                smells |-> smells, import_graph |-> import_graph,
                function_bodies |-> function_bodies, exc |-> ""]
         res == IF ext \notin DOMAIN EXT_TO_LANG THEN st
                ELSE parse_file(FileAt(path), PathStr(path), EXT_TO_LANG[ext], st,
                                LANGUAGES, world.config)
     IN /\ PARSERS' = res.parsers
        /\ files_parsed' = res.files_parsed
        /\ file_data' = res.file_data
        /\ smells' = res.smells
        /\ import_graph' = res.import_graph
        /\ function_bodies' = res.function_bodies
        /\ exc' = res.exc
        /\ file_queue' = Tail(file_queue)
        /\ pc' = IF res.exc # "" THEN "aborted" ELSE PcInScan(walk_stack, Tail(file_queue))
  /\ UNCHANGED <<world, run, log, listing, LANGUAGES, walk_stack, cur_dir, report,
                 prev_report>>

(***************************************************************************)
(* The corpus-wide passes, the report, and a further run                   *)
(***************************************************************************)
\* The orders in which one process may iterate the sets of the graph:
\* <<known_order, imp_order>>, known_order an order of set(graph.keys()) and
\* imp_order[m] an order of the set graph[m]
IterationOrders(graph) ==
  LET RECURSIVE imp_orders(_)
      imp_orders(keys) ==
        IF keys = {} THEN {<< >>}
        ELSE LET k == CHOOSE m \in keys : TRUE
             IN {(k :> p) @@ f : p \in Perms(graph[k]), f \in imp_orders(keys \ {k})}
  IN Perms(DOMAIN graph) \X imp_orders(DOMAIN graph)

DetectCircularImports ==
  /\ pc = "cycles"
  /\ log' = Append(log, "cycles")
  /\ \E o \in IterationOrders(import_graph) :
       smells' = smells \o CycleSmells(find_cycles(import_graph, o[1], o[2]))
  /\ pc' = After("cycles")
  /\ UNCHANGED <<world, run, exc, listing, LANGUAGES, PARSERS, walk_stack, cur_dir,
                 file_queue, files_parsed, file_data, import_graph, function_bodies,
                 report, prev_report>>

\* fpath.read_text(errors="replace") of a file of file_data
SourceOf(rel_path) == (CHOOSE f \in world.files : PathStr(f.path) = rel_path).source

DetectUnusedImports ==
  /\ pc = "unused"
  /\ log' = Append(log, "unused")
  /\ smells' = smells \o Concat([i \in 1..Len(file_data) |->
                   UnusedImportSmells(file_data[i], SourceOf(file_data[i].rel_path))])
  /\ pc' = After("unused")
  /\ UNCHANGED <<world, run, exc, listing, LANGUAGES, PARSERS, walk_stack, cur_dir,
                 file_queue, files_parsed, file_data, import_graph, function_bodies,
                 report, prev_report>>

\* detect_duplicate_logic building the findings list anew instead of
\* appending to it.
DetectDuplicateLogicAnew ==
  /\ pc = "dups"
  /\ log' = Append(log, "dups")
  /\ smells' = DuplicateSmells(function_bodies)
  /\ pc' = After("dups")
  /\ UNCHANGED <<world, run, exc, listing, LANGUAGES, PARSERS, walk_stack, cur_dir,
                 file_queue, files_parsed, file_data, import_graph, function_bodies,
                 report, prev_report>>

DetectDuplicateLogic ==
  /\ pc = "dups"
  /\ log' = Append(log, "dups")
  /\ smells' = smells \o DuplicateSmells(function_bodies)
  /\ pc' = After("dups")
  /\ UNCHANGED <<world, run, exc, listing, LANGUAGES, PARSERS, walk_stack, cur_dir,
                 file_queue, files_parsed, file_data, import_graph, function_bodies,
                 report, prev_report>>

FormatOutput ==
  /\ pc = "format"
  /\ log' = Append(log, "format")
  /\ report' = format_output(files_parsed, file_data, smells, world.config)
  /\ pc' = After("format")
  /\ UNCHANGED <<world, run, exc, listing, LANGUAGES, PARSERS, walk_stack, cur_dir,
                 file_queue, files_parsed, file_data, smells, import_graph,
                 function_bodies, prev_report>>

\* main() is run again, in a new process, over the unchanged tree
Rerun ==
  /\ pc = "done"
  /\ run < MaxRuns
  /\ run' = run + 1
  /\ prev_report' = report
  /\ pc' = "load"
  /\ exc' = ""
  /\ log' = <<>>
  /\ LANGUAGES' = {}
  /\ PARSERS' = {}
  /\ walk_stack' = <<>>
  /\ cur_dir' = <<>>
  /\ file_queue' = <<>>
  /\ files_parsed' = 0
  /\ file_data' = <<>>
  /\ smells' = <<>>
  /\ import_graph' = [m \in {} |-> {}]
  /\ function_bodies' = <<>>
  /\ report' = NoReport
  /\ UNCHANGED <<world, listing>>

Next ==
  \/ LoadLanguages
  \/ ScanDir
  \/ ScanFile
  \/ DetectCircularImports
  \/ DetectUnusedImports
  \/ DetectDuplicateLogic
  \/ FormatOutput
  \/ Rerun

Spec == Init /\ [][Next]_vars

(***************************************************************************)
(* Properties                                                              *)
(***************************************************************************)
\* The findings of one type, in the order of self.smells
FindingsOf(type) == SelectSeq(smells, LAMBDA s : s.type = type)

\* scan() has returned in this run
ScanOver ==
  /\ "scan" \in Range(log)
  /\ pc \notin {"scan", "aborted"}

\* The members of the cycle a CIRCULAR_IMPORT finding reports, sorted, the
\* repeated last one left out
CycleMembers(s) ==
  LET parts == SplitOn(s.detail, " -> ")
  IN SortedStrs(SubSeq(parts, 1, Len(parts) - 1))

\* C1: once detect_circular_imports has run, no two CIRCULAR_IMPORT findings
\* have the same sorted set of cycle members, however many times the search
\* came upon the cycle.
CyclesDeduplicated ==
  "cycles" \in Range(log) =>
    LET found == FindingsOf("CIRCULAR_IMPORT")
    IN \A i, j \in 1..Len(found) :
         i # j => CycleMembers(found[i]) # CycleMembers(found[j])

\* C1, its case: the search came upon more cycles than it reported, so the
\* `seen` test dropped a repeated one.
CycleFoundTwice ==
  /\ pc = "unused"
  /\ \E o \in IterationOrders(import_graph) :
       LET cycles == find_cycles(import_graph, o[1], o[2])
       IN /\ CycleSmells(cycles) = smells
          /\ Len(cycles) > Len(smells)
          /\ Len(smells) > 0

\* The order in which the spec has the phases of a run
PhaseOrder == <<"load", "scan", "cycles", "unused", "dups", "format">>

IsPrefix(s, t) == Len(s) <= Len(t) /\ SubSeq(t, 1, Len(s)) = s

\* One of the corpus-wide passes, or the formatting, has started
CorpusPassStarted == Range(log) \cap {"cycles", "unused", "dups", "format"} # {}

\* The walk has yielded every directory and every file of each was met
WalkOver ==
  /\ "scan" \in Range(log)
  /\ walk_stack = <<>>
  /\ file_queue = <<>>

\* C2: in every run the phases start in the order scan, import-cycle
\* detection, unused-import detection, duplicate-logic detection, formatting;
\* no corpus-wide pass starts before the walk has met every file; and once
\* the first corpus-wide pass has started no file record, import-graph entry
\* or function body is added in that run.
PhasesInOrder ==
  /\ [](IsPrefix(log, PhaseOrder) /\ (CorpusPassStarted => WalkOver))
  /\ [][(CorpusPassStarted /\ run' = run) =>
          UNCHANGED <<files_parsed, file_data, import_graph, function_bodies>>]_vars

\* C2, its case: a run over several files went through every phase
AllPhasesRan ==
  /\ pc = "done"
  /\ log = PhaseOrder
  /\ Len(file_data) >= 3
  /\ DOMAIN import_graph # {}
  /\ function_bodies # <<>>

\* C3: a second complete run over the unchanged tree, with the same
\* configuration, prints the report the run before it printed, byte for byte.
ReportsIdentical ==
  (run > 1 /\ pc = "done") => report = prev_report

\* The directory segments of a file's path, and whether one equals an
\* ignored name
HasIgnoredSegment(path) ==
  \E i \in 1..(Len(path) - 1) : path[i] \in IgnoreDirs(world.config)

\* The files of the tree that lie in or below a directory with an ignored name
IgnoredFiles ==
  {PathStr(f.path) : f \in {g \in world.files : HasIgnoredSegment(g.path)}}

RecordPaths == {file_data[i].rel_path : i \in 1..Len(file_data)}

\* C4: no file record, captured function body, finding or import-graph key
\* comes from a file that has, at any depth, a directory segment equal to an
\* ignored name: such files are never parsed.  (A CIRCULAR_IMPORT finding
\* belongs to the file of the graph key its cycle starts with.)
IgnoredContributeNothing ==
  /\ RecordPaths \cap IgnoredFiles = {}
  /\ \A i \in 1..Len(function_bodies) : function_bodies[i].file \notin IgnoredFiles
  /\ \A i \in 1..Len(smells) :
       IF smells[i].type = "CIRCULAR_IMPORT"
       THEN SplitOn(smells[i].detail, " -> ")[1] \in DOMAIN import_graph
       ELSE smells[i].file \notin IgnoredFiles
  /\ \A k \in DOMAIN import_graph :
       \E p \in RecordPaths \ IgnoredFiles : ModuleName(p) = k
  /\ files_parsed <= Cardinality({f \in world.files : ~HasIgnoredSegment(f.path)})

\* C4, its case: scan returned from a tree that holds a readable file three
\* directories deep below an ignored name, whose top directory was walked
\* and had a file parsed.
WalkedPastIgnored ==
  /\ ScanOver
  /\ \E f \in world.files :
       /\ Len(f.path) >= 4
       /\ f.status = "ok"
       /\ f.path[1] \notin IgnoreDirs(world.config)
       /\ f.path[2] \in IgnoreDirs(world.config)
       /\ \E p \in RecordPaths : StartsWith(p, f.path[1] \o "/")

\* The directories of the tree, as paths relative to the root
Dirs == UNION {{SubSeq(f.path, 1, k) : k \in 1..(Len(f.path) - 1)} : f \in world.files}

\* os.walk never yielded directory d: it, or a directory above it, was pruned
Pruned(d) == d \notin DOMAIN listing

\* C5, as the spec has it: a directory is pruned only when one of the
\* segments of its path is equal, as a whole, to an entry of the ignore set.
PrunedOnlyOnEquality ==
  ScanOver =>
    \A d \in Dirs :
      Pruned(d) => \E i \in 1..Len(d) : d[i] \in IgnoreDirs(world.config)

\* A segment matches an entry when it equals it, or the entry holds a '*'
\* and the segment ends with what is left of the entry once every '*' is
\* taken out
MatchesEntry(segment, entry) ==
  \/ segment = entry
  \/ /\ \E i \in 1..Len(entry) : Ch(entry, i) = "*"
     /\ LET rest == Join("", SplitOn(entry, "*"))
        IN Len(rest) <= Len(segment)
           /\ SubSeq(segment, Len(segment) - Len(rest) + 1, Len(segment)) = rest

\* C5, amended: a directory is pruned exactly when a segment of its path
\* matches an entry of the ignore set: it equals the entry, or the entry
\* holds a '*' and the segment ends with the entry's text without its '*'.
\* A name that merely contains or starts with an entry's text, or ends with
\* the text of an entry that holds no '*', is not pruned.
PrunedOnSegmentMatch ==
  ScanOver =>
    \A d \in Dirs :
      Pruned(d) <=> \E i \in 1..Len(d) :
                      \E entry \in IgnoreDirs(world.config) : MatchesEntry(d[i], entry)

\* C5, its case: scan returned from a tree of which it pruned a directory
\* whose name only ends with an entry's text after the '*', and walked one
\* whose name contains an ignored name without being equal to it.
PrunedBySuffixOnly ==
  /\ ScanOver
  /\ \E d \in Dirs :
       /\ Pruned(d)
       /\ \A i \in 1..Len(d) : d[i] \notin IgnoreDirs(world.config)
  /\ \E d \in Dirs :
       /\ ~Pruned(d)
       /\ \E entry \in IgnoreDirs(world.config) :
            entry # d[Len(d)] /\ Contains(d[Len(d)], entry)

\* C6: no file that scan meets aborts the run, a file whose bytes are not
\* valid UTF-8 included: scan returns and main() goes on to the passes.
ScanNeverAborts == ~(pc = "aborted" /\ "scan" \in Range(log))

\* C7: however a grammar fails to load, _load_languages returns and main()
\* goes on to the scan.
LoadNeverAborts == ~(pc = "aborted" /\ "scan" \notin Range(log))

\* self._function_bodies as detect_duplicate_logic compares them
NormalizedBodies ==
  [i \in 1..Len(function_bodies) |->
     [function_bodies[i] EXCEPT !.source = normalize(@)]]

\* The similarity ratio of the i-th and the j-th captured body
PairRatio(i, j) == Ratio(NormalizedBodies[i].source, NormalizedBodies[j].source)

\* The unordered pairs of distinct captured bodies, the one captured first
\* first
BodyPairs ==
  {p \in (1..Len(function_bodies)) \X (1..Len(function_bodies)) : p[1] < p[2]}

\* The DUPLICATE_LOGIC findings that are about the pair (i, j): attributed
\* to the file and line of body i and naming body j
PairFindings(i, j) ==
  LET found == FindingsOf("DUPLICATE_LOGIC")
      fa == NormalizedBodies[i]
      fb == NormalizedBodies[j]
  IN {k \in 1..Len(found) :
        /\ found[k].file = fa.file
        /\ found[k].line = <<fa.line>>
        /\ StartsWith(found[k].detail, fa.name \o "() ~")
        /\ EndsWith(found[k].detail,
                    "% similar to " \o fb.name \o "() in " \o fb.file \o ":"
                      \o ToString(fb.line))}

\* C8: detect_duplicate_logic emits one DUPLICATE_LOGIC finding for each
\* unordered pair of distinct captured bodies whose ratio is strictly greater
\* than 0.8, attributed to the body captured first and naming the one
\* captured second, and no other: none for a pair at 0.8 or less, none for a
\* body with itself, none for a pair the other way round.
DuplicatePairsFlaggedOnce ==
  "dups" \in Range(log) =>
    LET found == FindingsOf("DUPLICATE_LOGIC")
        over == {p \in BodyPairs : 5 * PairRatio(p[1], p[2])[1] > 4 * PairRatio(p[1], p[2])[2]}
    IN /\ Len(found) = Cardinality(over)
       /\ \A p \in BodyPairs :
            Cardinality(PairFindings(p[1], p[2])) = IF p \in over THEN 1 ELSE 0
       /\ \A p \in BodyPairs : PairFindings(p[2], p[1]) = {}
       /\ \A i \in 1..Len(function_bodies) : PairFindings(i, i) = {}

\* C8, its case: the pass ran over three bodies or more, one pair of them at
\* exactly 0.8 and one above.
PairAtThreshold ==
  /\ "dups" \in Range(log)
  /\ Len(function_bodies) >= 3
  /\ \E p \in BodyPairs : 5 * PairRatio(p[1], p[2])[1] = 4 * PairRatio(p[1], p[2])[2]
  /\ \E p \in BodyPairs : 5 * PairRatio(p[1], p[2])[1] > 4 * PairRatio(p[1], p[2])[2]

\* The two texts have no character in common
ShareNothing(a, b) ==
  \A i \in 1..Len(a) : \A j \in 1..Len(b) : Ch(a, i) # Ch(b, j)

\* C9: two captured functions whose normalized bodies are identical have
\* ratio 1.0 (twice the matched length equals the combined length) and a
\* DUPLICATE_LOGIC finding, at 100%; two whose normalized bodies share
\* nothing have ratio 0 and no finding.
IdenticalOrDisjointBodies ==
  "dups" \in Range(log) =>
    \A p \in BodyPairs :
      LET a == NormalizedBodies[p[1]].source
          b == NormalizedBodies[p[2]].source
          r == PairRatio(p[1], p[2])
          found == FindingsOf("DUPLICATE_LOGIC")
      IN /\ a = b =>
              /\ r[1] = r[2]
              /\ r[2] = Len(a) + Len(b)
              /\ \E k \in PairFindings(p[1], p[2]) : Contains(found[k].detail, "() ~100% ")
         /\ ShareNothing(a, b) =>
              /\ r[1] = 0
              /\ PairFindings(p[1], p[2]) = {}

\* C9, its case: the pass compared two functions whose raw texts differ and
\* whose normalized texts are equal, and two that share no character.
IdenticalAndDisjointPairs ==
  /\ "dups" \in Range(log)
  /\ \E p \in BodyPairs :
       /\ function_bodies[p[1]].source # function_bodies[p[2]].source
       /\ NormalizedBodies[p[1]].source = NormalizedBodies[p[2]].source
  /\ \E p \in BodyPairs :
       ShareNothing(NormalizedBodies[p[1]].source, NormalizedBodies[p[2]].source)

\* The function nodes of the parsed files: <<rel_path, node>> for each node
\* of a type the file's language lists under "functions"
FunctionNodes ==
  UNION {{<<file_data[i].rel_path, n>> :
            n \in {m \in Range(NodesOf(FileAt(SplitOn(file_data[i].rel_path, "/")))) :
                     m.type \in NodeTypes(file_data[i].lang, "functions")}} :
         i \in 1..Len(file_data)}

\* end line - start line + 1
Span(node) == EndRow(node) - node.row + 1

\* The body captured for the function node fn, if there is one
CapturedAt(fn) ==
  {i \in 1..Len(function_bodies) :
     function_bodies[i].file = fn[1] /\ function_bodies[i].line = fn[2].row + 1}

\* No DUPLICATE_LOGIC finding has a function of span under 10 as its first
\* or its second function, and with fewer than two bodies there is none
ShortNeverFlagged ==
  "dups" \in Range(log) =>
    /\ pc # "aborted"
    /\ Len(function_bodies) < 2 => FindingsOf("DUPLICATE_LOGIC") = <<>>
    /\ \A fn \in FunctionNodes :
         Span(fn[2]) < 10 =>
           LET found == FindingsOf("DUPLICATE_LOGIC")
               at == ":" \o ToString(fn[2].row + 1)
           IN \A k \in 1..Len(found) :
                /\ ~(found[k].file = fn[1] /\ found[k].line = <<fn[2].row + 1>>)
                /\ ~EndsWith(found[k].detail, "() in " \o fn[1] \o at)

\* C10, as the spec has it: a function or method of a parsed file is
\* captured for the duplicate search if and only if its span is 10 lines or
\* more; one of span 9 is in no DUPLICATE_LOGIC finding; with fewer than two
\* captured bodies the pass emits nothing and does not fail.
CapturedIffTenLines ==
  /\ \A fn \in FunctionNodes : CapturedAt(fn) # {} <=> Span(fn[2]) >= 10
  /\ ShortNeverFlagged

\* C10, amended: a function or method of a parsed file is captured if and
\* only if a name can be extracted from its node and its span is 10 lines or
\* more (a function without a name is never captured, whatever its span);
\* one of span 9 is in no DUPLICATE_LOGIC finding; with fewer than two
\* captured bodies the pass emits nothing and does not fail.
NamedCapturedIffTenLines ==
  /\ \A fn \in FunctionNodes :
       CapturedAt(fn) # {} <=> (fn[2].name # NoName /\ Span(fn[2]) >= 10)
  /\ ShortNeverFlagged

\* C10, its case: the pass ran with one captured body, of span exactly 10,
\* over files that also hold a named function of span 9 and a function of
\* span 10 without a name.
OneBodyOfTenLines ==
  /\ "dups" \in Range(log)
  /\ Len(function_bodies) = 1
  /\ \E fn \in FunctionNodes : CapturedAt(fn) # {} /\ Span(fn[2]) = 10
  /\ \E fn \in FunctionNodes : fn[2].name # NoName /\ Span(fn[2]) = 9
  /\ \E fn \in FunctionNodes : fn[2].name = NoName /\ Span(fn[2]) >= 10

\* The findings of the type at the line of function or class node fn
FindingsAt(type, fn) ==
  {k \in 1..Len(smells) :
     smells[k].type = type /\ smells[k].file = fn[1] /\ smells[k].line = <<fn[2].row + 1>>}

\* C11: once a scan is over, every named function of a parsed file has one
\* LONG_FUNCTION finding if its span is more than the configured threshold
\* (so at threshold + 1) and none if it is not (so at the threshold); no
\* function has two.
LongFunctionAboveThreshold ==
  ScanOver =>
    \A fn \in FunctionNodes :
      fn[2].name # NoName =>
        Cardinality(FindingsAt("LONG_FUNCTION", fn)) =
          IF Span(fn[2]) > world.config.long_func_lines THEN 1 ELSE 0

\* C11, its case: a scan under a threshold other than the default met a
\* named function one line over it and reported it.
LongByOneLine ==
  /\ ScanOver
  /\ world.config.long_func_lines # DefaultConfig.long_func_lines
  /\ \E fn \in FunctionNodes :
       /\ fn[2].name # NoName
       /\ Span(fn[2]) = world.config.long_func_lines + 1
       /\ FindingsAt("LONG_FUNCTION", fn) # {}

\* The class nodes of the parsed files, each with the path of its file
ClassNodes ==
  UNION {{<<file_data[i].rel_path, n>> :
            n \in {m \in Range(NodesOf(FileAt(SplitOn(file_data[i].rel_path, "/")))) :
                     m.type \in NodeTypes(file_data[i].lang, "classes")}} :
         i \in 1..Len(file_data)}

\* The methods a class declares directly in its body: the function
\* definitions that are members of the body, plain or under decorators
DirectMethods(class) ==
  LET IsMethod(member) ==
        \/ member.type \in {"function_definition", "method_definition",
                            "method_declaration", "function_item", "function_declaration"}
        \/ /\ member.type = "decorated_definition"
           /\ \E sub \in Range(member.children) : sub.type = "function_definition"
  IN SumSeq([i \in 1..Len(class.children) |->
               IF class.children[i].type \in
                    {"block", "class_body", "declaration_list", "field_declaration_list"}
               THEN Cardinality({j \in 1..Len(class.children[i].children) :
                                   IsMethod(class.children[i].children[j])})
               ELSE 0])

\* C12: once a scan is over, every named class of a parsed file has one
\* GOD_CLASS finding if the methods it declares directly in its body are
\* more than the configured threshold (16 under the default 15) and none if
\* they are not (15 under the default); methods of nested classes do not
\* count.
GodClassAboveThreshold ==
  ScanOver =>
    \A cl \in ClassNodes :
      cl[2].name # NoName =>
        Cardinality(FindingsAt("GOD_CLASS", cl)) =
          IF DirectMethods(cl[2]) > world.config.god_class_methods THEN 1 ELSE 0

\* The parameters a function declares, self and cls apart: the children of
\* its parameter list
DeclaredParams(fn) ==
  SumSeq([i \in 1..Len(fn.children) |->
            IF fn.children[i].type \in {"parameters", "formal_parameters", "parameter_list",
                                        "function_value_parameters"}
            THEN Cardinality({j \in 1..Len(fn.children[i].children) :
                                fn.children[i].children[j].text \notin {"self", "cls"}})
            ELSE 0])

\* The types of the findings at the line of function node fn, in the order
\* they were reported
TypesAt(fn) ==
  LET at == SelectSeq(smells, LAMBDA s : s.file = fn[1] /\ s.line = <<fn[2].row + 1>>)
  IN [k \in 1..Len(at) |-> at[k].type]

\* C13: under the default thresholds a function of 51 lines that declares 6
\* parameters other than self and cls and nests control flow 5 deep has
\* exactly three findings, one LONG_FUNCTION, one MANY_PARAMS and one
\* DEEP_NESTING, and none of another type.
ThreeFindingsAtDefaults ==
  (ScanOver /\ world.config = DefaultConfig) =>
    \A fn \in FunctionNodes :
      (/\ fn[2].name # NoName
       /\ Span(fn[2]) = 51
       /\ DeclaredParams(fn[2]) = 6
       /\ count_nesting_depth(fn[2], 0) = 5) =>
        /\ Len(TypesAt(fn)) = 3
        /\ Range(TypesAt(fn)) = {"LONG_FUNCTION", "MANY_PARAMS", "DEEP_NESTING"}

\* The import statements of the parsed Python files, each with the path of
\* its file
ImportNodes ==
  UNION {{<<file_data[i].rel_path, n>> :
            n \in {m \in Range(NodesOf(FileAt(SplitOn(file_data[i].rel_path, "/")))) :
                     m.type \in NodeTypes("python", "imports")}} :
         i \in {j \in 1..Len(file_data) : file_data[j].lang = "python"}}

\* The names the UNUSED_IMPORT findings of a file report
ReportedUnused(rel_path) ==
  {SubSeq(smells[k].detail, 2, Len(smells[k].detail) - 16) :
     k \in {j \in 1..Len(smells) :
              smells[j].type = "UNUSED_IMPORT" /\ smells[j].file = rel_path}}

\* The lines of a file with the lines of the statement at node left out, and
\* those after the statement
LinesElsewhere(rel_path, node) ==
  LET lines == SplitLines(SourceOf(rel_path)) IN
  SubSeq(lines, 1, node.row) \o SubSeq(lines, EndRow(node) + 2, Len(lines))

LinesAfter(rel_path, node) ==
  LET lines == SplitLines(SourceOf(rel_path)) IN SubSeq(lines, EndRow(node) + 2, Len(lines))

\* The pass over unused imports has run in this run
UnusedOver == "unused" \in Range(log) /\ pc # "aborted"

\* C14, as the spec has it: for a Python file with the statement `import
\* os`, an UNUSED_IMPORT finding for os is emitted if the text os is nowhere
\* else in the file, and none is if os occurs anywhere later in the file.
ImportOsUnusedIffNotSpelledLater ==
  UnusedOver =>
    \A imp \in ImportNodes :
      imp[2].text = "import os" =>
        /\ (\A l \in Range(LinesElsewhere(imp[1], imp[2])) : ~Contains(l, "os"))
             => "os" \in ReportedUnused(imp[1])
        /\ (\E l \in Range(LinesAfter(imp[1], imp[2])) : Contains(l, "os"))
             => "os" \notin ReportedUnused(imp[1])

\* A line the pass takes for a line of an import statement
IsImportLine(line) ==
  StartsWith(Strip(line), "import ") \/ StartsWith(Strip(line), "from ")

\* C14, amended: for a Python file with the statement `import os`, an
\* UNUSED_IMPORT finding for os is emitted if and only if the text os is in
\* no line of the file other than the lines that start with `import ` or
\* `from `: a later line of that kind that spells os (`import posixpath`)
\* does not count as a use.
ImportOsUnusedIffNotSpelledOutsideImports ==
  UnusedOver =>
    \A imp \in ImportNodes :
      imp[2].text = "import os" =>
        ("os" \in ReportedUnused(imp[1])
           <=> \A l \in Range(SplitLines(SourceOf(imp[1]))) :
                 IsImportLine(l) \/ ~Contains(l, "os"))

\* C14, its case: the pass met `import os` in a file whose only other line
\* that spells os is an import line, and reported os.
OsSpelledOnlyInImports ==
  /\ UnusedOver
  /\ \E imp \in ImportNodes :
       /\ imp[2].text = "import os"
       /\ \E l \in Range(LinesAfter(imp[1], imp[2])) : Contains(l, "os")
       /\ "os" \in ReportedUnused(imp[1])

\* The names an import statement binds, as the spec has them: of each item
\* after `import`, the alias if it has one, else its last dotted component;
\* a wildcard binds none
BoundNames(text) ==
  LET parts == SplitWs(text)
      items == SplitOn(StripChars(Join(" ", SubSeq(parts, IndexOf(parts, "import") + 1,
                                                   Len(parts))), {"(", ")"}), ",")
      last(item) == SplitOn(item, ".")[Len(SplitOn(item, "."))]
      one(item) == IF Contains(item, " as ") THEN {AfterAs(item)}
                   ELSE IF item \in {"", "*"} THEN {}
                   ELSE {last(item)}
  IN UNION {one(Strip(items[i])) : i \in 1..Len(items)}

\* C15: once the pass over unused imports has run, the names reported for a
\* Python file are exactly the names its import statements bind (the alias
\* if there is one, else the last dotted component; none for a wildcard)
\* that no line other than an import line spells: no other text, such as a
\* piece of a statement cut to 80 characters, is reported.
UnusedNamesAreBoundNames ==
  UnusedOver =>
    \A i \in {j \in 1..Len(file_data) : file_data[j].lang = "python"} :
      ReportedUnused(file_data[i].rel_path) =
        {n \in UNION {BoundNames(Strip(imp[2].text)) :
                        imp \in {x \in ImportNodes : x[1] = file_data[i].rel_path}} :
           \A l \in Range(SplitLines(SourceOf(file_data[i].rel_path))) :
             IsImportLine(l) \/ ~Contains(l, n)}

\* format_output has returned in this run: report is its text
Reported == "format" \in Range(log)

\* The list of lines the report of this run is joined from
ReportLines == format_output_lines(files_parsed, file_data, smells, world.config)

\* Of the lines of a report, those that display a finding and those that
\* count the findings of a type left out
EntriesOf(lines) == SelectSeq(lines, LAMBDA l : StartsWith(l, "- ["))

OverflowsOf(lines) == SelectSeq(lines, LAMBDA l : StartsWith(l, "  ... and "))

\* The type a line that displays a finding names in its brackets
EntryType(l) == SubSeq(SplitOn(l, "]")[1], 4, Len(SplitOn(l, "]")[1]))

\* The findings whose type is not skipped
Unskipped == SelectSeq(smells, LAMBDA s : s.type \notin world.config.skip_smells)

\* How many of the findings are of the type, or of the severity
CountType(found, type) == Cardinality({i \in 1..Len(found) : found[i].type = type})

CountSeverity(found, sev) == Cardinality({i \in 1..Len(found) : found[i].severity = sev})

\* C16: in a report, the issue total of the Code Smells header and the
\* high/medium/low tally of the Summary count only the findings whose type
\* is not in the skip set, no displayed entry and no overflow line is of a
\* skipped type, and each other type shows as many entries as it would
\* without the skipped findings.
SkippedContributeNothing ==
  Reported =>
    LET lines == ReportLines
        found == Unskipped
        types == [i \in 1..Len(EntriesOf(lines)) |-> EntryType(EntriesOf(lines)[i])]
        skip == world.config.skip_smells
    IN /\ report = Join("\n", lines)
       /\ ("\n# Code Smells (" \o ToString(Len(found)) \o " issues found)\n") \in Range(lines)
       /\ ("- **Smells**: " \o ToString(CountSeverity(found, "high")) \o " high, "
             \o ToString(CountSeverity(found, "medium")) \o " medium, "
             \o ToString(CountSeverity(found, "low")) \o " low") \in Range(lines)
       /\ \A i \in 1..Len(types) : types[i] \notin skip
       /\ \A l \in Range(OverflowsOf(lines)) :
            \A k \in skip : ~EndsWith(l, " more " \o k \o " issues")
       /\ \A k \in {smells[i].type : i \in 1..Len(smells)} \ skip :
            Cardinality({i \in 1..Len(types) : types[i] = k}) = Min2(CountType(found, k), 15)

\* C16, its case: a report was made of findings of which more than 15 are of
\* a skipped type and others are not skipped.
SkippedFindingsReported ==
  /\ Reported
  /\ \E k \in world.config.skip_smells :
       Len(SelectSeq(smells, LAMBDA s : s.type = k)) > 15
  /\ Unskipped # <<>>

\* C17: in a report, each type of finding shows min(15, n) entries, n being
\* the number of its findings that are not skipped; a line "... and n-15
\* more" of the type is there exactly when n > 15, once; and the entries
\* shown plus the numbers of the overflow lines add up to the issue total of
\* the Code Smells header.
CappedAtFifteenPerType ==
  Reported =>
    LET lines == ReportLines
        found == Unskipped
        types == [i \in 1..Len(EntriesOf(lines)) |-> EntryType(EntriesOf(lines)[i])]
        over == OverflowsOf(lines)
        kinds == {found[i].type : i \in 1..Len(found)}
        more(k) == "  ... and " \o ToString(CountType(found, k) - 15) \o " more " \o k
                     \o " issues"
        capped == SelectSeq(found, LAMBDA s : CountType(found, s.type) > 15)
        left_out == Unique([i \in 1..Len(capped) |-> capped[i].type])
    IN /\ \A k \in kinds :
            /\ Cardinality({i \in 1..Len(types) : types[i] = k}) = Min2(CountType(found, k), 15)
            /\ Cardinality({i \in 1..Len(over) : over[i] = more(k)})
                 = IF CountType(found, k) > 15 THEN 1 ELSE 0
       /\ Range(types) = kinds
       /\ Len(over) = Len(left_out)
       /\ Len(types) + SumSeq([i \in 1..Len(left_out) |-> CountType(found, left_out[i]) - 15])
            = Len(found)
       /\ found # <<>> =>
            ("\n# Code Smells (" \o ToString(Len(found)) \o " issues found)\n") \in Range(lines)

\* C17, its case: a report shows a type with 16 findings, one over the cap,
\* next to a type with fewer than 15.
SixteenOfOneType ==
  /\ Reported
  /\ \E k \in {smells[i].type : i \in 1..Len(smells)} : CountType(Unskipped, k) = 16
  /\ \E k \in {smells[i].type : i \in 1..Len(smells)} :
       CountType(Unskipped, k) \in 1..14
  /\ \E l \in Range(OverflowsOf(ReportLines)) : StartsWith(l, "  ... and 1 more ")

RECURSIVE ParseNat(_)
\* The number a string of decimal digits writes
ParseNat(s) ==
  IF s = "" THEN 0
  ELSE 10 * ParseNat(SubSeq(s, 1, Len(s) - 1))
       + (CHOOSE d \in 0..9 : ToString(d) = Ch(s, Len(s)))

\* The place a line that displays a finding gives: <<file, line>>, the line
\* 0 when it gives none
EntryPlace(l) ==
  LET loc == SplitOn(SplitOn(l, " -- ")[1], "] ")[2]
      at == SplitOn(loc, ":")
  IN <<at[1], IF Len(at) > 1 THEN ParseNat(at[2]) ELSE 0>>

\* (file, line) of p before (file, line) of q
PlaceLess(p, q) == StrLess(p[1], q[1]) \/ (p[1] = q[1] /\ p[2] < q[2])

\* The title of the section the findings of a type are in
SectionOf(type) ==
  LET sev == Unskipped[CHOOSE i \in 1..Len(Unskipped) : Unskipped[i].type = type].severity
  IN CASE sev = "high" -> "## High Priority\n"
       [] sev = "medium" -> "## Medium Priority\n"
       [] sev = "low" -> "## Low Priority\n"

\* C18: in a report the sections of the severities come in the order high,
\* medium, low, each finding under the title of its severity; the entries
\* of one type are next to each other and in non-decreasing order of (file,
\* line), a missing line being 0; and they are the least of their type in
\* that order: a finding before the k-th entry shown is among the k-1
\* entries above it.
SectionsAndEntriesOrdered ==
  Reported =>
    LET lines == ReportLines
        found == Unskipped
        titles == <<"## High Priority\n", "## Medium Priority\n", "## Low Priority\n">>
        shown == SelectSeq(lines, LAMBDA l : StartsWith(l, "- [") \/ l \in Range(titles))
        type == [i \in 1..Len(shown) |->
                   IF shown[i] \in Range(titles) THEN "" ELSE EntryType(shown[i])] \o <<>>
        place == [i \in 1..Len(shown) |->
                    IF shown[i] \in Range(titles) THEN <<"", 0>> ELSE EntryPlace(shown[i])]
                 \o <<>>
        places == [f \in 1..Len(found) |-> <<found[f].file, LineOrZero(found[f].line)>>]
                  \o <<>>
        section == [i \in 1..Len(shown) |->
                      IF shown[i] \in Range(titles) THEN shown[i] ELSE SectionOf(type[i])]
                   \o <<>>
    IN /\ SelectSeq(shown, LAMBDA l : l \in Range(titles))
            = SelectSeq(titles, LAMBDA t : t \in Range(lines))
       /\ \A i \in 1..Len(shown) :
            /\ i = 1 => shown[i] \in Range(titles)
            /\ i > 1 => (section[i] = section[i - 1] \/ shown[i] \in Range(titles))
       /\ \A i \in 2..Len(shown) :
            type[i] # "" =>
              IF type[i] = type[i - 1]
              THEN ~PlaceLess(place[i], place[i - 1])
              ELSE \A j \in 1..(i - 1) : type[j] # type[i]
       /\ \A i \in 1..Len(shown) :
            type[i] # "" =>
              Cardinality({f \in 1..Len(found) :
                             found[f].type = type[i] /\ PlaceLess(places[f], place[i])})
                <= Cardinality({j \in 1..(i - 1) : type[j] = type[i]})

\* C18, its case: a report of findings of all three severities in which a
\* type with more than 15 findings has a later finding that sorts before an
\* earlier one.
LaterFindingSortsFirst ==
  /\ Reported
  /\ {"high", "medium", "low"} \subseteq {Unskipped[i].severity : i \in 1..Len(Unskipped)}
  /\ \E i, j \in 1..Len(Unskipped) :
       /\ i < j
       /\ Unskipped[i].type = Unskipped[j].type
       /\ CountType(Unskipped, Unskipped[i].type) > 15
       /\ StrLess(Unskipped[j].file, Unskipped[i].file)

\* The number of lines of a text: a newline ends a line, and what follows
\* the last newline is a line if it is not empty
NumLines(text) ==
  CountChar(text, "\n") + (IF text = "" \/ EndsWith(text, "\n") THEN 0 ELSE 1)

\* C19: once a scan is over, a file has one LARGE_FILE finding if it was
\* parsed and its number of lines is more than the large-file threshold,
\* and none otherwise: none at exactly the threshold (500 by default), with
\* a final newline or without, and none if the file was skipped.
LargeFileAboveThreshold ==
  ScanOver =>
    \A f \in world.files :
      Cardinality({k \in 1..Len(smells) :
                     smells[k].type = "LARGE_FILE" /\ smells[k].file = PathStr(f.path)})
        = IF /\ PathStr(f.path) \in {file_data[i].rel_path : i \in 1..Len(file_data)}
             /\ NumLines(f.source) > world.config.large_file_lines
          THEN 1 ELSE 0

\* The statements of a block: its named children that are no comments
BlockStatements(block) ==
  SelectSeq(block.children,
            LAMBDA c : c.is_named /\ c.type \notin {"comment", "line_comment", "block_comment"})

\* The line a block's DEAD_CODE finding should carry, if the block should
\* have one: that of the statement after its first terminating statement
UnreachableLine(block) ==
  LET stmts == BlockStatements(block)
      terminals == {i \in 1..Len(stmts) : stmts[i].type \in TERMINAL_TYPES}
  IN IF terminals = {} \/ FirstIndex(terminals) = Len(stmts) THEN <<>>
     ELSE <<<<stmts[FirstIndex(terminals) + 1].row + 1>>>>

\* The lines of the DEAD_CODE findings of a file that lie on a child of the
\* block
DeadCodeLines(file, block) ==
  LET on == {<<c.row + 1>> : c \in Range(block.children)}
      found == SelectSeq(smells, LAMBDA s : /\ s.type = "DEAD_CODE"
                                            /\ s.file = PathStr(file.path)
                                            /\ s.line \in on)
  IN [i \in 1..Len(found) |-> found[i].line]

\* C20: once a scan is over, every block of a parsed file has at most one
\* DEAD_CODE finding; it has one exactly when one of its return, raise,
\* break, continue or throw statements is followed by another statement of
\* the block, and the finding is on the line of the first statement after the
\* first such statement; the statements after that one add nothing.
DeadCodeOncePerBlock ==
  ScanOver =>
    \A f \in world.files :
      PathStr(f.path) \in {file_data[i].rel_path : i \in 1..Len(file_data)} =>
        \A b \in Range(NodesOf(f)) :
          b.type \in BLOCK_TYPES => DeadCodeLines(f, b) = UnreachableLine(b)

\* The modules a CIRCULAR_IMPORT finding names, in the order of its path
CyclePath(s) == SplitOn(s.detail, " -> ")

\* The module key without its last component
ParentKey(module) ==
  LET parts == SplitOn(module, ".") IN Join(".", SubSeq(parts, 1, Len(parts) - 1))

\* An import spelling of `module` may mean the module key `target`: the two
\* are equal, the key ends with the spelling after a '.', or the spelling is
\* relative and names the key from the package of `module`
ResolvesTo(module, spelling, target) ==
  \/ target = spelling
  \/ EndsWith(target, "." \o spelling)
  \/ StartsWith(spelling, ".") /\ target = ParentKey(module) \o spelling

\* The path of a finding is a cycle of the import graph: it ends where it
\* starts, its members are distinct keys, and each imports the next
IsCycleOfGraph(path) ==
  /\ Len(path) >= 2
  /\ path[Len(path)] = path[1]
  /\ \A i \in 1..(Len(path) - 1) :
       /\ path[i] \in DOMAIN import_graph
       /\ \A j \in (i + 1)..(Len(path) - 1) : path[i] # path[j]
       /\ \E spelling \in import_graph[path[i]] : ResolvesTo(path[i], spelling, path[i + 1])

\* The finding's file is a parsed Python file whose module key is `module`
AttributedToFileOf(s, module) ==
  \E i \in 1..Len(file_data) :
    /\ file_data[i].lang = "python"
    /\ ModuleName(file_data[i].rel_path) = module
    /\ s.file = file_data[i].rel_path

\* C21: once detect_circular_imports has run, every CIRCULAR_IMPORT finding
\* names a cycle of the resolved import graph (a path that ends where it
\* starts, through distinct module keys each of which imports the next) and
\* is attributed to the file of the first module of the path.
FindingsAreGenuineCycles ==
  "cycles" \in Range(log) =>
    \A s \in Range(FindingsOf("CIRCULAR_IMPORT")) :
      IsCycleOfGraph(CyclePath(s)) /\ AttributedToFileOf(s, CyclePath(s)[1])

\* The import spellings of the graph that may mean no module key
Unresolved(graph) ==
  {<<m, spelling>> \in UNION {{m} \X graph[m] : m \in DOMAIN graph} :
     ~\E k \in DOMAIN graph : ResolvesTo(m, spelling, k)}

\* The graph with every unresolved spelling removed, its keys kept
Resolved(graph) ==
  LET unresolved == Unresolved(graph)
  IN [m \in DOMAIN graph |-> {spelling \in graph[m] : <<m, spelling>> \notin unresolved}]

\* The findings are what the search finds in `graph`, for some order of
\* iterating its sets
FoundIn(graph, found) ==
  LET g == [m \in DOMAIN graph |-> graph[m]] @@ << >>
      f == found \o <<>>
  IN \E o \in IterationOrders(g) : f = CycleSmells(find_cycles(g, o[1], o[2]))

\* C22: when detect_circular_imports has returned, the run has not been
\* aborted, every key of the import graph is still the module key of a
\* parsed Python file, and the CIRCULAR_IMPORT findings are findings of the
\* graph with every unresolved spelling removed (compared in the first run:
\* every run of main() builds the same graph); an empty graph gives none.
UnresolvedSpellingsIgnored ==
  pc = "unused" =>
    /\ exc = ""
    /\ \A m \in DOMAIN import_graph :
         \E i \in 1..Len(file_data) :
           file_data[i].lang = "python" /\ ModuleName(file_data[i].rel_path) = m
    /\ (run = 1 => FoundIn(Resolved(import_graph), FindingsOf("CIRCULAR_IMPORT")))
    /\ (DOMAIN import_graph = {} => FindingsOf("CIRCULAR_IMPORT") = <<>>)

\* C22, its case: a cycle was found in a graph that has an unresolved spelling
CycleBesideUnresolvedSpelling ==
  /\ pc = "unused"
  /\ Unresolved(import_graph) # {}
  /\ FindingsOf("CIRCULAR_IMPORT") # <<>>

\* The places of the nodes of a tree: the child indices leading from the
\* root to the node
RECURSIVE PositionsOf(_)
PositionsOf(node) ==
  {<<>>} \cup UNION {{<<i>> \o p : p \in PositionsOf(node.children[i])} :
                       i \in 1..Len(node.children)}

RECURSIVE NodeAt(_, _)
NodeAt(node, p) == IF p = <<>> THEN node ELSE NodeAt(node.children[p[1]], Tail(p))

\* Place p comes before place q in pre-order: p is an ancestor of q, or at
\* the first index where they part p takes the earlier child
ComesBefore(p, q) ==
  \E i \in 1..Len(q) :
    /\ i <= Len(p) + 1
    /\ SubSeq(p, 1, i - 1) = SubSeq(q, 1, i - 1)
    /\ (i = Len(p) + 1 \/ p[i] < q[i])

\* The nodes of a tree, parents before their children and children in
\* source order
InPreOrder(root) ==
  LET places == PositionsOf(root)
      rank == [p \in places |-> Cardinality({q \in places : ComesBefore(q, p)})] @@ << >>
  IN [k \in 1..Cardinality(places) |-> NodeAt(root, CHOOSE p \in places : rank[p] = k - 1)]

\* The order in which the spec has the visitors run on a node
VisitorOrder ==
  <<"ClassVisitor", "FunctionVisitor", "ImportVisitor", "InterfaceVisitor",
    "TypeAliasVisitor", "CatchAllVisitor", "DeadCodeVisitor">>

\* The calls of visit that _walk_tree makes on the tree of a file
CallsOn(file) ==
  WalkNodes(NodesOf(file),
            NewContext(PathStr(file.path), EXT_TO_LANG[Suffix(file.path[Len(file.path)])]),
            world.config).calls

\* C23: for every tree of the input, _walk_tree calls the seven visitors
\* once each on every node, in the order class, function, import, interface,
\* type-alias, catch-all, dead-code, the nodes taken in pre-order.
EveryVisitorOnEveryNodeInPreOrder ==
  pc \in {"cycles", "aborted"} =>
    \A f \in world.files :
      (f.status = "ok" /\ Suffix(f.path[Len(f.path)]) \in DOMAIN EXT_TO_LANG) =>
        LET nodes == InPreOrder(Root(f)) \o <<>>
        IN CallsOn(f) = Concat([k \in 1..Len(nodes) |->
                                  [v \in 1..Len(VisitorOrder) |->
                                     <<VisitorOrder[v], nodes[k].type, nodes[k].row>>]])

\* C24: a step of detect_circular_imports, detect_unused_imports or
\* detect_duplicate_logic leaves file_data, import_graph, files_parsed and
\* the captured function bodies as they were and only appends to the
\* findings; a step of format_output leaves all five as they were, and
\* format_output called again on the state it left returns the same report.
PassesOnlyAppendFindings ==
  [][/\ pc \in {"cycles", "unused", "dups"} =>
          /\ UNCHANGED <<file_data, import_graph, files_parsed, function_bodies>>
          /\ IsPrefix(smells, smells')
     /\ pc = "format" =>
          /\ UNCHANGED <<file_data, import_graph, files_parsed, function_bodies, smells>>
          /\ report' = format_output(files_parsed', file_data', smells', world.config)]_vars

\* C24, its case: a run in which each of the three passes left a finding
\* after those there were, and the report was made
EveryPassAddedFindings ==
  /\ pc = "done"
  /\ Reported
  /\ \E i, j, k \in 1..Len(smells) :
       /\ i < j /\ j < k
       /\ smells[i].type = "CIRCULAR_IMPORT"
       /\ smells[j].type = "UNUSED_IMPORT"
       /\ smells[k].type = "DUPLICATE_LOGIC"

\* A line that holds a comment and nothing else, in the language of the
\* file: from # in Python and Ruby, from // or between /* and */ elsewhere
IsFullLineComment(line, lang) ==
  IF lang \in {"python", "ruby"} THEN StartsWith(Strip(line), "#")
  ELSE \/ StartsWith(Strip(line), "//")
       \/ StartsWith(Strip(line), "/*") /\ EndsWith(Strip(line), "*/")

\* The normalized text as the spec has it: the lines that are neither blank
\* nor full-line comments, in their order, without their trailing whitespace
NormalizedAsStated(source, lang) ==
  LET kept == SelectSeq(SplitLines(source),
                        LAMBDA line : Strip(line) # "" /\ ~IsFullLineComment(line, lang))
  IN Join("\n", [i \in 1..Len(kept) |-> RStrip(kept[i])])

\* C25: for every captured function body, normalize removes exactly the
\* blank lines and the full-line comments, removes from the lines it keeps
\* their trailing whitespace only, keeps them in their order, and returns a
\* normalized text unchanged.
NormalizeStripsOnlyBlanksAndComments ==
  ScanOver =>
    \A b \in Range(function_bodies) :
      /\ normalize(b.source)
           = NormalizedAsStated(b.source, EXT_TO_LANG[Suffix(b.file)])
      /\ normalize(normalize(b.source)) = normalize(b.source)

\* The modules an import statement names: every item after `import`, without
\* its alias, or the module after `from`
ModulesNamed(text) ==
  LET parts == SplitWs(text)
      items == SplitOn(Join(" ", Tail(parts)), ",")
  IN IF parts[1] = "from" THEN {parts[2]}
     ELSE {Strip(SplitOn(items[i], " as ")[1]) : i \in 1..Len(items)}

\* C26: once a scan is over, the import graph has, under the module key of
\* every parsed Python file, the spelling of every module that every import
\* statement of the file names: each module of `import a, b` and the module
\* after `from`.
GraphHoldsEveryModuleNamed ==
  ScanOver =>
    \A in \in ImportNodes :
      \A spelling \in ModulesNamed(in[2].text) :
        /\ ModuleName(in[1]) \in DOMAIN import_graph
        /\ spelling \in import_graph[ModuleName(in[1])]

\* The resolved import graph of a process that iterates the key set in
\* known_order: an edge from a key to the key each of its spellings is
\* matched to
ResolvedEdges(graph, known_order) ==
  {<<m, MatchImport(m, spelling, known_order, DOMAIN graph)[1]>> :
     <<m, spelling>> \in
       {e \in UNION {{k} \X graph[k] : k \in DOMAIN graph} :
          MatchImport(e[1], e[2], known_order, DOMAIN graph) # <<>>}}

\* The nodes that can be reached from the nodes of `from` along one edge or
\* more
RECURSIVE ReachableFrom(_, _)
ReachableFrom(from, edges) ==
  LET next == from \cup {e[2] : e \in {d \in edges : d[1] \in from}}
  IN IF next = from THEN {e[2] : e \in {d \in edges : d[1] \in from}}
     ELSE ReachableFrom(next, edges)

\* Some node lies on a directed cycle, a self-loop included
HasCycle(edges) == \E e \in edges : e[1] \in ReachableFrom({e[2]}, edges) \cup {e[2]}

\* C27: whatever the order in which the sets of the import graph are
\* iterated, detect_circular_imports reports at least one CIRCULAR_IMPORT
\* finding if the resolved import graph has a directed cycle, a self-import
\* included, and none if it has not.  Every run of main() builds the same
\* graph from the tree, so the graphs of the first run are all the graphs.
SomeFindingIffGraphCyclic ==
  (pc = "unused" /\ run = 1) =>
    LET orders == IterationOrders(import_graph)
    IN \A known_order \in {o[1] : o \in orders} :
         LET cyclic == HasCycle(ResolvedEdges(import_graph, known_order))
         IN \A o \in {q \in orders : q[1] = known_order} :
              (CycleSmells(find_cycles(import_graph, o[1], o[2])) # <<>>) <=> cyclic

\* C27, its case: a self-import was reported, and so was a cycle through
\* three modules in another tree
SelfImportReported ==
  /\ pc = "unused"
  /\ \E s \in Range(FindingsOf("CIRCULAR_IMPORT")) : Len(CyclePath(s)) = 2
  /\ HasCycle({<<m, m>> : m \in DOMAIN import_graph}
                \cap {<<m, k>> \in (DOMAIN import_graph) \X (DOMAIN import_graph) :
                        \E spelling \in import_graph[m] : ResolvesTo(m, spelling, k)})

TitleCount(lines) ==
  ParseNat(SubSeq(lines[1], Len("# Codebase Structure (") + 1,
                  Len(lines[1]) - Len(" files parsed)\n")))

\* The lines of the Structure sections that head a file: "**path** (lang, ..."
FileHeads(lines) == SelectSeq(lines, LAMBDA l : StartsWith(l, "**"))

\* The counts of the Languages line of the Summary, "Python (2), Go (1)"
LanguageCounts(lines) ==
  LET line == CHOOSE l \in Range(lines) : StartsWith(l, "- **Languages**: ")
      text == SubSeq(line, Len("- **Languages**: ") + 1, Len(line))
      parts == IF text = "" THEN <<>> ELSE SplitOn(text, ", ")
  IN [i \in 1..Len(parts) |->
        LET n == SplitOn(parts[i], " (")[2] IN ParseNat(SubSeq(n, 1, Len(n) - 1))]

\* C29: once scan() has returned without aborting the run, files_parsed is
\* the number of records of file_data, the records have pairwise different
\* paths, each the path of a file of the tree that was read and parsed; and
\* in a report the count of the title is the number of files the Structure
\* sections list and the sum of the counts of the Languages line.
OneRecordPerParsedFile ==
  (ScanOver /\ exc = "") =>
    /\ files_parsed = Len(file_data)
    /\ \A i, j \in 1..Len(file_data) :
         file_data[i].rel_path = file_data[j].rel_path => i = j
    /\ \A i \in 1..Len(file_data) :
         \E f \in world.files :
           PathStr(f.path) = file_data[i].rel_path /\ f.status = "ok"
    /\ Reported =>
         LET lines == ReportLines
             titled == TitleCount(lines)
         IN /\ titled = files_parsed
            /\ Len(FileHeads(lines)) = titled
            /\ SumSeq(LanguageCounts(lines)) = titled

\* C29, its case: a report of three files or more in two languages or more,
\* made by a run that also met a file it could not read or parse
SeveralFilesReported ==
  /\ Reported
  /\ exc = ""
  /\ files_parsed >= 3
  /\ Len(LanguageCounts(ReportLines)) >= 2
  /\ \E f \in world.files : f.status # "ok"

\* The parsed Python files, by their place in file_data
PythonRecords == {i \in 1..Len(file_data) : file_data[i].lang = "python"}

\* Two different parsed Python files have different module keys
KeysDistinct ==
  \A i, j \in PythonRecords :
    ModuleName(file_data[i].rel_path) = ModuleName(file_data[j].rel_path) => i = j

\* Every CIRCULAR_IMPORT finding is attributed to the relative path of a
\* parsed file from which the first module key of its path was derived
FindingsOnFilesOfKeys ==
  \A s \in Range(FindingsOf("CIRCULAR_IMPORT")) : AttributedToFileOf(s, CyclePath(s)[1])

\* C30: once detect_circular_imports has returned, no two parsed Python
\* files of the tree share a module key, and the file of every
\* CIRCULAR_IMPORT finding is the relative path of the file its module key
\* was derived from.
ModuleKeyNamesItsFile ==
  (ScanOver /\ exc = "" /\ "cycles" \in Range(log)) =>
    KeysDistinct /\ FindingsOnFilesOfKeys

====
